---- MODULE Spec2Model ----
(***************************************************************************)
(* Debug-adapter session core of theia: DebugSession (threads, derived     *)
(* state, thread refresh chain, debounce, configure, breakpoint resync and *)
(* dedup, capabilities, start, pauseAll / continueAll) and                 *)
(* DebugSessionManager (configuration numbering, current session, destroy, *)
(* restart).                                                               *)
(***************************************************************************)
EXTENDS Integers, Sequences, FiniteSets, TLC

\* ------------------------------------------------------------------ bounds
\* longest pendingThreads chain (refreshes queued or in flight)
MaxPending == 2
\* bursts of thread-started events that are followed
MaxBursts == 2

\* breakpoint lines are 1..MaxLine
MaxLine == 2
\* most breakpoints declared for one resource
MaxMarkers == 2
\* changes of the breakpoint store that are followed
MaxStoreChanges == 1
\* most setBreakpoints requests in flight at once
MaxSyncs == 2

\* longest list dedupBreakpoints is called on by itself
MaxDedup == 3
\* start() calls of the manager that are followed
MaxStarts == 4
\* restarts of the manager that are followed
MaxRestarts == 1

\* session ids debugService.create gives out
MaxSessions == 3

\* ------------------------------------------------------------- constants
\* debounce(() => this.updateThreads(undefined), 100)
DebounceMs == 100
\* granularity of the clock: the window is two ticks long
TickMs == DebounceMs \div 2

\* the thread ids the adapter uses (0 is a valid id)
ThreadIds == {0, 1}

\* `undefined` for a thread id and for stop details
NoThread == -1
NoDetails == [threadId |-> NoThread, preserveFocusHint |-> FALSE]

\* bodies of `stopped` events (StoppedDetails)
StopBodies == [threadId : ThreadIds, preserveFocusHint : BOOLEAN]

\* thread lists a `threads` response can carry: ids without repetition, any order
ThreadLists ==
    UNION { { s \in [1..n -> ThreadIds] : \A i, j \in 1..n : i # j => s[i] # s[j] }
            : n \in 0..Cardinality(ThreadIds) }

Uris == {"a.ts", "b.ts"}
Lines == 1..MaxLine
\* the lines breakpoints are declared on in the store, and the lines the adapter
\* answers with (0: the answer carries no line)
StoreLines == {1, 2}
AnswerLines == {0, 1, 2}

\* the resources the store can know, in the order getUris() lists them
UriOrder == <<"a.ts", "b.ts">>
UriOrders == { SubSeq(UriOrder, 1, n) : n \in 0..Len(UriOrder) }

\* SourceBreakpoint lists of one resource; a declaration is identified by its id
MarkerLists ==
    UNION { { [i \in 1..n |-> [id |-> i, line |-> f[i].line, enabled |-> f[i].enabled]]
              : f \in [1..n -> [line : StoreLines, enabled : BOOLEAN]] }
            : n \in 0..MaxMarkers }

VARIABLES
    \* ---- DebugSession
    disposed,         \* connection.disposed (set by DebugSession.dispose)
    initialized,      \* DebugSession.initialized
    capConfigDone,    \* capabilities.supportsConfigurationDoneRequest
    threads,          \* DebugSession._threads, in insertion order: Seq of [id, stoppedDetails]
    currentThread,    \* id of DebugSession._currentThread, NoThread when undefined
    pendingThreads,   \* the pendingThreads chain: Seq of [stoppedDetails, origin]; its head is in flight
    refreshed,        \* flips whenever doUpdateThreads applies a `threads` response
    timer,            \* ms left on the debounce timer of scheduleUpdateThreads, 0 = not armed
    \* ---- observers of the thread side
    bursts,           \* bursts of thread-started events begun so far
    burstEvents,      \* thread-started events of the current burst (saturates at 3)
    sinceStarted,     \* ms since the last thread-started event, capped at DebounceMs
    lastFireGap,      \* sinceStarted when the debounce timer last ran its callback, -1 = never
    threadsSent,      \* `threads` requests sent, by origin of the refresh
    threadsRejected,  \* refreshes whose sendRequest was refused by a closed connection, by origin
    \* ---- breakpoints
    storeUris,        \* BreakpointManager.getUris(), in iteration order
    markers,          \* BreakpointManager.findMarkers({uri}): uri -> Seq of SourceBreakpoint
    sessionBps,       \* DebugSession._breakpoints: uri -> [has, list], has = the map has the key
    cfgPc,            \* position of configure(): idle, bp, confDone, done, failed
    cfgIdx,           \* index into storeUris of the resource configure is syncing
    syncs,            \* setBreakpoints requests in flight: Seq of [kind, uri, all]
    \* ---- observers of the breakpoint side
    bpFired,          \* breakpoint-changed notifications fired by the session, per uri
    setBpSent,        \* setBreakpoints requests sent, per uri
    storeChanges,     \* changes of the breakpoint store so far
    lastSync,         \* per uri: input, answer and result of the last completed resync;
                      \* gen is 0 before the first and then alternates between 1 and 2,
                      \* repeat says that the resync before it had the same input and answer
    cfgSent,          \* uris for which configure sent setBreakpoints, in order
    cfgAcked,         \* uris whose configure setBreakpoints was answered
    confDone,         \* configurationDone request: no, sent, acked
    capAtDecision,    \* supportsConfigurationDoneRequest as configure read it: unread, yes, no
    \* ---- dedupBreakpoints called on its own
    dAll, dPerm, dOut, dOutPerm, dPc,
    \* ---- DebugSessionManager
    configurationIds, \* DebugSessionManager.configurationIds: name -> number, -1 = no entry
    resolving,        \* start() calls in progress: set of [name, call, stage, number]
    mgrSessions,      \* DebugSessionManager._sessions: the number of sessions per configuration
    calls,            \* start() calls made with an unresolved configuration, per name
    received,         \* per name: [number, fresh, afterDestroy] of every start, in the
                      \* order in which the starts got their number
    restarts,         \* doRestart calls so far
    destroyed,        \* per name: a session of that name has been destroyed
    \* ---- observers of single events
    continued,        \* the last `continued` event: [seq, allThreadsContinued, threadId];
                      \* seq flips with every event
    \* ---- capabilities
    capabilities,     \* DebugSession._capabilities without supportsConfigurationDoneRequest:
                      \* a function from the fields it has to their values
    capEvent,         \* the last `capabilities` event: [seq, event]; seq flips with every event
    \* ---- DebugSession.start and the manager's registration of the session
    startPc,          \* position of start(): off, initialize, launch, message, started, rejected
    startFailure,     \* the request whose rejection made start() fail: none, initialize, launch
    exitedFired,      \* local `exited` events fired by launchOrAttach
    launchSent,       \* launch/attach requests sent
    messages,         \* error messages shown to the user
    registered,       \* the session is in DebugSessionManager._sessions
    \* ---- pauseAll / continueAll
    fanKind,          \* the last call: none, pause, continue
    fanTargets,       \* ids of the threads the call applied to when it was made
    fanSent,          \* requests the call has sent, per thread id
    fanPending,       \* thread ids whose request is in flight
    fanFailed,        \* thread ids whose request was rejected
    fanResult,        \* the promise of the call: none, pending, resolved, rejected
    \* ---- DebugSessionManager with several sessions
    allSessions,      \* DebugSessionManager._sessions: the session ids in insertion order
    debugSessions,    \* per session id, the DebugSession made for it: [disposed, initialized,
                      \* supportsRestartRequest, configuration, restartOf]
    created,          \* session ids debugService.create has given out so far
    currentSession,   \* DebugSessionManager._currentSession, NoSession when undefined
    creating,         \* start() calls awaiting debugService.create:
                      \* Seq of [configuration, restartOf]
    restartPc,        \* per session id, the restart of that session: none, restart,
                      \* disconnect, create, done, rejected
    requests,         \* per session id, of the restart of that session: the `restart`
                      \* and the `disconnect` requests sent, answered = the disconnect
                      \* was answered, by = restart (a call of restart) or terminated
                      \* (the `terminated` event), none before it
    restartResult,    \* per session id: the session the restart of that session resolved
                      \* to; at NoSession: Undefined once a restart() without a session
                      \* to restart has returned
    lastOp,           \* the last destroy call or assignment of currentSession: [kind,
                      \* id, all = _sessions, current and sessions before it, touched =
                      \* the breakpoint resources of the sessions current and id before
                      \* it, events, fired, log, left = _sessions and after = the
                      \* current session when it returned]
    \* ---- observers of the thread refreshes
    observed          \* [on, what, arg, event]: the last of the steps an observer
                      \* records and the last `stopped` or `continued` event, when the
                      \* specification has switched the observer on

sessionVars == <<disposed, initialized, capConfigDone>>
threadVars == <<threads, currentThread, pendingThreads, refreshed>>
timerVars == <<timer, bursts, burstEvents, sinceStarted, lastFireGap>>
countVars == <<threadsSent, threadsRejected>>
storeVars == <<storeUris, markers>>
bpVars == <<sessionBps, syncs, bpFired, setBpSent, storeChanges, lastSync>>
cfgVars == <<cfgPc, cfgIdx, cfgSent, cfgAcked, confDone, capAtDecision>>
dedupVars == <<dAll, dPerm, dOut, dOutPerm, dPc>>
mgrVars == <<configurationIds, resolving, mgrSessions, calls, received, restarts, destroyed>>
\* observers and state added for single operations
contVars == <<continued>>
capVars == <<capabilities, capEvent>>
lifeVars == <<startPc, startFailure, exitedFired, launchSent, messages, registered>>
fanVars == <<fanKind, fanTargets, fanSent, fanPending, fanFailed, fanResult>>
obsVars == <<observed>>
multiVars == <<allSessions, debugSessions, created, currentSession, creating, restartPc,
               requests, restartResult, lastOp>>
restVars == <<capVars, lifeVars, fanVars, multiVars, obsVars>>
extVars == <<contVars, restVars>>
vars == <<sessionVars, threadVars, timerVars, countVars, storeVars, bpVars, cfgVars,
          dedupVars, mgrVars, extVars>>

\* where a thread refresh comes from; those of the last two are counted
Origins == {"stopped", "debounce", "configure"}
Counted == {"debounce", "configure"}

Bump(count, origin) ==
    IF origin \in Counted THEN [count EXCEPT ![origin] = @ + 1] ELSE count

\* ------------------------------------------------------- thread model
\* DebugThread.stopped
Stopped(thread) == thread.stoppedDetails # NoDetails

\* new DebugThread(session): no raw, no stop details yet
NewThread == [id |-> NoThread, stoppedDetails |-> NoDetails]

\* DebugThread.update({raw, stoppedDetails}): the thread's contents are overwritten
\* by the data, a stoppedDetails of undefined included
ThreadUpdate(thread, id, stoppedDetails) ==
    [thread EXCEPT !.id = id, !.stoppedDetails = stoppedDetails]

\* DebugThread.clear()
ThreadClear(thread) == ThreadUpdate(thread, thread.id, NoDetails)

\* this._threads.has(id)
HasThread(ts, id) == \E i \in 1..Len(ts) : ts[i].id = id

\* this._threads.get(id), for an id in the map
GetThread(ts, id) == ts[CHOOSE i \in 1..Len(ts) : ts[i].id = id]

\* this._threads.values().next().value
FirstThread(ts) == IF Len(ts) = 0 THEN NoThread ELSE ts[1].id

\* an updateCurrentThread that keeps a current thread that left the map
UpdateCurrentThread_Keep(ts, cur, stoppedDetails) ==
    LET threadId == IF /\ stoppedDetails # NoDetails
                       /\ ~stoppedDetails.preserveFocusHint
                       /\ stoppedDetails.threadId # 0
                    THEN stoppedDetails.threadId
                    ELSE cur
    IN IF threadId # NoThread THEN threadId ELSE FirstThread(ts)

\* DebugSession.updateCurrentThread: the new current thread
UpdateCurrentThread(ts, cur, stoppedDetails) ==
    LET threadId == IF /\ stoppedDetails # NoDetails
                       /\ ~stoppedDetails.preserveFocusHint
                       /\ stoppedDetails.threadId # 0
                    THEN stoppedDetails.threadId
                    ELSE cur
    IN IF threadId # NoThread /\ HasThread(ts, threadId) THEN threadId ELSE FirstThread(ts)

\* DebugSession.doUpdateThreads: the rebuilt thread map (a thread object is reused
\* by id, and updated with the stop details only when the event names it)
DoUpdateThreads(existing, list, stoppedDetails) ==
    [i \in 1..Len(list) |->
        ThreadUpdate(IF HasThread(existing, list[i]) THEN GetThread(existing, list[i])
                     ELSE NewThread,
                     list[i],
                     IF stoppedDetails # NoDetails /\ stoppedDetails.threadId = list[i]
                     THEN stoppedDetails ELSE NoDetails)]

\* DebugSession.clearThreads: every thread cleared
ClearThreads(ts) == [i \in 1..Len(ts) |-> ThreadClear(ts[i])]

\* DebugSession.clearThread: the named thread cleared, when it is in the map
ClearThread(ts, threadId) ==
    [i \in 1..Len(ts) |-> IF ts[i].id = threadId THEN ThreadClear(ts[i]) ELSE ts[i]]

\* the state a session would report if it looked at every thread and never at
\* the current one
State_AnyStopped ==
    IF disposed THEN "Inactive"
    ELSE IF ~initialized THEN "Initializing"
    ELSE IF \E i \in 1..Len(threads) : Stopped(threads[i]) THEN "Stopped" ELSE "Running"

\* DebugSession.state
State ==
    IF disposed THEN "Inactive"
    ELSE IF ~initialized THEN "Initializing"
    ELSE IF currentThread # NoThread
         THEN (IF Stopped(GetThread(threads, currentThread)) THEN "Stopped" ELSE "Running")
    ELSE IF \E i \in 1..Len(threads) : Stopped(threads[i]) THEN "Stopped" ELSE "Running"


\* ------------------------------------------------- thread refresh chain
\* the observer records a step and what it was about
Observe(what, arg) ==
    observed' = IF observed.on THEN [observed EXCEPT !.what = what, !.arg = arg] ELSE observed

\* the step the observer has recorded last
Recorded == <<observed.what, observed.arg>>

\* the observer records the last `stopped` or `continued` event
ObserveEvent(event) ==
    observed' = IF observed.on THEN [observed EXCEPT !.event = event] ELSE observed

\* a refresh of the chain; sent says that its `threads` request has been sent
Task(stoppedDetails, origin) ==
    [stoppedDetails |-> stoppedDetails, origin |-> origin, sent |-> FALSE]

\* the refresh runs: await this.sendRequest('threads', {})
Sent(task) == [task EXCEPT !.sent = TRUE]

CountOrigin(q, origin) == Cardinality({i \in 1..Len(q) : q[i].origin = origin})

\* an updateThreads that does not chain: the request is sent at once
Enqueue_Unchained(stoppedDetails, origin) ==
    IF disposed
    THEN /\ pendingThreads' = <<>>
         /\ threadsRejected' = Bump(threadsRejected, origin)
         /\ UNCHANGED threadsSent
    ELSE /\ pendingThreads' = Append(pendingThreads, Sent(Task(stoppedDetails, origin)))
         /\ threadsSent' = Bump(threadsSent, origin)
         /\ UNCHANGED threadsRejected

\* DebugSession.updateThreads: the refresh is chained behind pendingThreads. On an
\* idle chain its `threads` request is sent at once; a closed connection refuses
\* it, which the catch swallows.
Enqueue(stoppedDetails, origin) ==
    IF pendingThreads # <<>>
    THEN /\ pendingThreads' = Append(pendingThreads, Task(stoppedDetails, origin))
         /\ UNCHANGED countVars
    ELSE IF disposed
    THEN /\ pendingThreads' = <<>>
         /\ threadsRejected' = Bump(threadsRejected, origin)
         /\ UNCHANGED threadsSent
    ELSE /\ pendingThreads' = <<Sent(Task(stoppedDetails, origin))>>
         /\ threadsSent' = Bump(threadsSent, origin)
         /\ UNCHANGED threadsRejected

\* the head of the chain has settled: the next refresh sends its request
Advance ==
    LET rest == Tail(pendingThreads)
    IN /\ pendingThreads' = IF rest = <<>> THEN rest ELSE <<Sent(rest[1])>> \o Tail(rest)
       /\ threadsSent' = IF rest = <<>> THEN threadsSent
                         ELSE Bump(threadsSent, rest[1].origin)
       /\ UNCHANGED threadsRejected

\* ------------------------------------------------------ adapter events
\* a 'continued' listener that clears every thread only when allThreadsContinued
\* is true, and takes an absent value for false
OnContinued_OnlyWhenTrue(allThreadsContinued, threadId) ==
    /\ ~disposed
    /\ threads' = IF allThreadsContinued = "true" THEN ClearThreads(threads)
                  ELSE ClearThread(threads, threadId)
    /\ currentThread' = UpdateCurrentThread(threads', currentThread, NoDetails)
    /\ continued' = [seq |-> ~continued.seq, allThreadsContinued |-> allThreadsContinued,
                     threadId |-> threadId]
    /\ ObserveEvent(IF allThreadsContinued # "false" THEN "continued all" ELSE "continued one")
    /\ UNCHANGED <<sessionVars, pendingThreads, refreshed, timerVars, countVars, storeVars, bpVars,
                   cfgVars, dedupVars, mgrVars, capVars, lifeVars, fanVars, multiVars>>

\* 'continued' listener
OnContinued(allThreadsContinued, threadId) ==
    /\ ~disposed
    /\ threads' = IF allThreadsContinued # "false" THEN ClearThreads(threads)
                  ELSE ClearThread(threads, threadId)
    /\ currentThread' = UpdateCurrentThread(threads', currentThread, NoDetails)
    /\ continued' = [seq |-> ~continued.seq, allThreadsContinued |-> allThreadsContinued,
                     threadId |-> threadId]
    /\ ObserveEvent(IF allThreadsContinued # "false" THEN "continued all" ELSE "continued one")
    /\ UNCHANGED <<sessionVars, pendingThreads, refreshed, timerVars, countVars, storeVars, bpVars,
                   cfgVars, dedupVars, mgrVars, capVars, lifeVars, fanVars, multiVars>>

\* 'stopped' listener: updateThreads(body)
OnStopped(body) ==
    /\ ~disposed
    /\ Len(pendingThreads) < MaxPending
    /\ Enqueue(body, "stopped")
    /\ ObserveEvent("stopped")
    /\ UNCHANGED <<sessionVars, threads, currentThread, refreshed, timerVars, storeVars, bpVars,
                   cfgVars, dedupVars, mgrVars, contVars, capVars, lifeVars, fanVars,
                   multiVars>>

\* a throttle in the place of the debounce: an armed timer is left as it is
OnThreadStarted_Throttle ==
    /\ ~disposed
    /\ timer = 0 => bursts < MaxBursts
    /\ timer' = IF timer = 0 THEN DebounceMs ELSE timer
    /\ bursts' = IF timer = 0 THEN bursts + 1 ELSE bursts
    /\ burstEvents' = IF timer = 0 THEN 1 ELSE IF burstEvents < 3 THEN burstEvents + 1 ELSE 3
    /\ sinceStarted' = 0
    /\ UNCHANGED <<sessionVars, threadVars, lastFireGap, countVars, storeVars, bpVars,
                   cfgVars, dedupVars, mgrVars, extVars>>

\* 'thread' listener, reason started: scheduleUpdateThreads() (re)arms the timer
OnThreadStarted ==
    /\ ~disposed
    /\ timer = 0 => bursts < MaxBursts
    /\ timer' = DebounceMs
    /\ bursts' = IF timer = 0 THEN bursts + 1 ELSE bursts
    /\ burstEvents' = IF timer = 0 THEN 1 ELSE IF burstEvents < 3 THEN burstEvents + 1 ELSE 3
    /\ sinceStarted' = 0
    /\ UNCHANGED <<sessionVars, threadVars, lastFireGap, countVars, storeVars, bpVars,
                   cfgVars, dedupVars, mgrVars, extVars>>

\* what the observer records of a thread that exits
Exited(threadId) ==
    IF HasThread(threads, threadId) /\ Stopped(GetThread(threads, threadId))
    THEN "stopped thread exited" ELSE "thread exited"

\* a 'thread' listener that clears every thread when one exits
OnThreadExited_ClearAll(threadId) ==
    /\ ~disposed
    /\ threads' = ClearThreads(threads)
    /\ currentThread' = UpdateCurrentThread(threads', currentThread, NoDetails)
    /\ Observe(Exited(threadId), threadId)
    /\ UNCHANGED <<sessionVars, pendingThreads, refreshed, timerVars, countVars, storeVars, bpVars,
                   cfgVars, dedupVars, mgrVars, contVars, capVars, lifeVars, fanVars,
                   multiVars>>

\* 'thread' listener, reason exited: clearThread(threadId)
OnThreadExited(threadId) ==
    /\ ~disposed
    /\ threads' = ClearThread(threads, threadId)
    /\ currentThread' = UpdateCurrentThread(threads', currentThread, NoDetails)
    /\ Observe(Exited(threadId), threadId)
    /\ UNCHANGED <<sessionVars, pendingThreads, refreshed, timerVars, countVars, storeVars, bpVars,
                   cfgVars, dedupVars, mgrVars, contVars, capVars, lifeVars, fanVars,
                   multiVars>>

\* time passes by one tick; a timer that runs out calls updateThreads(undefined)
Tick ==
    /\ timer > 0
    /\ sinceStarted' = IF sinceStarted + TickMs < DebounceMs THEN sinceStarted + TickMs
                       ELSE DebounceMs
    /\ IF timer - TickMs > 0
       THEN /\ timer' = timer - TickMs
            /\ UNCHANGED <<pendingThreads, countVars, lastFireGap>>
       ELSE /\ Len(pendingThreads) < MaxPending
            /\ timer' = 0
            /\ lastFireGap' = sinceStarted'
            /\ Enqueue(NoDetails, "debounce")
    /\ UNCHANGED <<sessionVars, threads, currentThread, refreshed, bursts, burstEvents, storeVars,
                   bpVars, cfgVars, dedupVars, mgrVars, extVars>>

\* the `threads` response of the refresh in flight: doUpdateThreads
ThreadsResponse(list) ==
    /\ ~disposed
    /\ pendingThreads # <<>>
    /\ threads' = DoUpdateThreads(threads, list, pendingThreads[1].stoppedDetails)
    /\ currentThread' = UpdateCurrentThread(threads', currentThread,
                                            pendingThreads[1].stoppedDetails)
    /\ refreshed' = ~refreshed
    /\ Observe("threads applied", 0)
    /\ Advance
    /\ UNCHANGED <<sessionVars, timerVars, storeVars, bpVars, cfgVars, dedupVars, mgrVars,
                   contVars, capVars, lifeVars, fanVars, multiVars>>

\* a failed refresh that empties the thread map
ThreadsFail_Clear ==
    /\ ~disposed
    /\ pendingThreads # <<>>
    /\ threads' = <<>>
    /\ currentThread' = NoThread
    /\ Observe("threads failed", Len(pendingThreads) - 1)
    /\ Advance
    /\ UNCHANGED <<sessionVars, refreshed, timerVars, storeVars, bpVars,
                   cfgVars, dedupVars, mgrVars, contVars, capVars, lifeVars, fanVars,
                   multiVars>>

\* the `threads` request of the refresh in flight fails: logged, nothing applied
ThreadsFail ==
    /\ ~disposed
    /\ pendingThreads # <<>>
    /\ Observe("threads failed", Len(pendingThreads) - 1)
    /\ Advance
    /\ UNCHANGED <<sessionVars, threads, currentThread, refreshed, timerVars, storeVars, bpVars,
                   cfgVars, dedupVars, mgrVars, contVars, capVars, lifeVars, fanVars,
                   multiVars>>

\* the currentThread setter, called by a view with a thread of the session
SetCurrentThread(threadId) ==
    /\ ~disposed
    /\ HasThread(threads, threadId)
    /\ currentThread' = threadId
    /\ UNCHANGED <<sessionVars, threads, pendingThreads, refreshed, timerVars, countVars, storeVars,
                   bpVars, cfgVars, dedupVars, mgrVars, extVars>>


\* ---------------------------------------------------------- breakpoints
\* new DebugBreakpoint(data, ...): one origin, no adapter answer (raw) yet;
\* rawLine 0 stands for an answer that carries no line
NewDebugBreakpoint(data) == [origins |-> <<data>>, hasRaw |-> FALSE, rawLine |-> 0]

\* DebugBreakpoint.update({raw})
BreakpointUpdate(bp, rawLine) == [bp EXCEPT !.hasRaw = TRUE, !.rawLine = rawLine]

\* DebugBreakpoint.origin
Origin(bp) == bp.origins[1]

\* DebugBreakpoint.enabled
Enabled(bp) == Origin(bp).enabled

\* DebugBreakpoint.line: the adapter's line when it reported one, else the declared line
Line(bp) == IF bp.hasRaw /\ bp.rawLine # 0 THEN bp.rawLine ELSE Origin(bp).line

\* secondary.raw && secondary.raw.line === secondary.origin.raw.line
Unshifted(bp) == bp.hasRaw /\ bp.rawLine = Origin(bp).line

\* position in the lines map of the entry with this key, 0 when there is none
LineIndex(lines, line) ==
    IF \E i \in 1..Len(lines) : Line(lines[i]) = line
    THEN CHOOSE i \in 1..Len(lines) : Line(lines[i]) = line
    ELSE 0

\* the loop iteration without `primary.origins.push(...secondary.origins)`
DedupStep_DropOrigins(lines, breakpoint) ==
    LET idx == LineIndex(lines, Line(breakpoint))
    IN IF idx = 0
       THEN Append(lines, breakpoint)
       ELSE LET swap == Unshifted(breakpoint)
            IN [lines EXCEPT ![idx] = IF swap THEN breakpoint ELSE lines[idx]]

\* the loop iteration without the exchange of primary and secondary: the first
\* breakpoint of a line stays its primary
DedupStep_FirstWins(lines, breakpoint) ==
    LET idx == LineIndex(lines, Line(breakpoint))
    IN IF idx = 0
       THEN Append(lines, breakpoint)
       ELSE [lines EXCEPT ![idx] =
                [lines[idx] EXCEPT !.origins = lines[idx].origins \o breakpoint.origins]]

\* one iteration of the loop of dedupBreakpoints; lines holds the map's values in
\* key insertion order, each under the key Line(value)
DedupStep(lines, breakpoint) ==
    LET idx == LineIndex(lines, Line(breakpoint))
    IN IF idx = 0
       THEN Append(lines, breakpoint)
       ELSE LET swap == Unshifted(breakpoint)
                primary == IF swap THEN breakpoint ELSE lines[idx]
                secondary == IF swap THEN lines[idx] ELSE breakpoint
            IN [lines EXCEPT ![idx] =
                    [primary EXCEPT !.origins = primary.origins \o secondary.origins]]

RECURSIVE DedupFrom(_, _, _)
DedupFrom(lines, all, i) ==
    IF i > Len(all) THEN lines ELSE DedupFrom(DedupStep(lines, all[i]), all, i + 1)

\* DebugSession.dedupBreakpoints
DedupBreakpoints(all) == DedupFrom(<<>>, all, 1)

\* number of enabled breakpoints among the first i of all
RECURSIVE EnabledUpTo(_, _)
EnabledUpTo(all, i) ==
    IF i = 0 THEN 0
    ELSE EnabledUpTo(all, i - 1) + (IF Enabled(all[i]) THEN 1 ELSE 0)

\* response.body.breakpoints.map((raw, index) => enabled[index].update({raw})),
\* enabled = all.filter(b => b.enabled): the objects of `all` are updated in place
ApplyAnswer(all, answer) ==
    [i \in 1..Len(all) |->
        IF Enabled(all[i]) THEN BreakpointUpdate(all[i], answer[EnabledUpTo(all, i)])
        ELSE all[i]]

\* what one resync of a resource stores: the answer applied, then dedup of all
SyncResult(all, answer) == DedupBreakpoints(ApplyAnswer(all, answer))

\* a resync that notifies only when the stored set changes
SyncNotifications_OnChange(old, new) == IF old = new THEN 0 ELSE 1

\* notifications fireDidChangeBreakpoints(affectedUri) makes for one resync
SyncNotifications(old, new) == 1


\* DebugSession.getBreakpoints(uri)
GetBreakpoints(uri) == IF sessionBps[uri].has THEN sessionBps[uri].list ELSE <<>>

\* a setBreakpoints request in flight, with the breakpoints it was built from
\* (all = findMarkers({uri}).map(({data}) => new DebugBreakpoint(data, ...)))
Sync(kind, uri, found) ==
    [kind |-> kind, uri |-> uri,
     all |-> [i \in 1..Len(found) |-> NewDebugBreakpoint(found[i])]]

\* the `breakpoints` of the setBreakpoints request:
\* all.filter(b => b.enabled).map(({origin}) => origin.raw)
RequestBreakpoints(all) ==
    LET enabled == SelectSeq(all, Enabled)
    IN [i \in 1..Len(enabled) |-> Origin(enabled[i])]

\* the answers the adapter can give: one raw breakpoint per breakpoint sent
Answers(all) == [1..EnabledUpTo(all, Len(all)) -> AnswerLines]

\* the place of a resource in the order of the store
UriIndex(uri) == CHOOSE i \in 1..Len(UriOrder) : UriOrder[i] = uri

RemoveAt(q, i) == [j \in 1..(Len(q) - 1) |-> IF j < i THEN q[j] ELSE q[j + 1]]

\* configure() setting initialized before configurationDone is answered
ConfigureAfterBreakpoints_EarlyInitialized ==
    IF capConfigDone
    THEN /\ cfgPc' = "confDone"
         /\ confDone' = "sent"
         /\ initialized' = TRUE
         /\ UNCHANGED <<pendingThreads, countVars>>
    ELSE /\ cfgPc' = "done"
         /\ initialized' = TRUE
         /\ Len(pendingThreads) < MaxPending
         /\ Enqueue(NoDetails, "configure")
         /\ UNCHANGED confDone

\* configure() refreshing the threads only after a configurationDone
ConfigureAfterBreakpoints_NoRefresh ==
    IF capConfigDone
    THEN /\ cfgPc' = "confDone"
         /\ confDone' = "sent"
         /\ UNCHANGED <<initialized, pendingThreads, countVars>>
    ELSE /\ cfgPc' = "done"
         /\ initialized' = TRUE
         /\ UNCHANGED <<pendingThreads, countVars, confDone>>

\* configure() after updateBreakpoints: configurationDone when the capability says
\* so, else initialized = true and the first thread refresh
ConfigureAfterBreakpoints ==
    IF capConfigDone
    THEN /\ cfgPc' = "confDone"
         /\ confDone' = "sent"
         /\ UNCHANGED <<initialized, pendingThreads, countVars>>
    ELSE /\ cfgPc' = "done"
         /\ initialized' = TRUE
         /\ Len(pendingThreads) < MaxPending
         /\ Enqueue(NoDetails, "configure")
         /\ UNCHANGED confDone

\* configure() / updateBreakpoints({sourceModified: false}) from resource idx on:
\* the request for the next resource of getAffectedUris(), or the rest of configure
ConfigureFrom(idx, inFlight) ==
    IF idx <= Len(storeUris)
    THEN /\ cfgPc' = "bp"
         /\ cfgIdx' = idx
         /\ syncs' = Append(inFlight, Sync("configure", storeUris[idx], markers[storeUris[idx]]))
         /\ setBpSent' = [setBpSent EXCEPT ![storeUris[idx]] = @ + 1]
         /\ cfgSent' = Append(cfgSent, storeUris[idx])
         /\ UNCHANGED <<initialized, pendingThreads, countVars, confDone, capAtDecision>>
    ELSE /\ syncs' = inFlight
         /\ capAtDecision' = IF capConfigDone THEN "yes" ELSE "no"
         /\ UNCHANGED <<cfgIdx, setBpSent, cfgSent>>
         /\ ConfigureAfterBreakpoints

\* 'initialized' listener: configure()
OnInitialized ==
    /\ ~disposed
    /\ cfgPc = "idle"
    /\ ConfigureFrom(1, syncs)
    /\ UNCHANGED <<disposed, capConfigDone, threads, currentThread, refreshed, timerVars, storeVars,
                   sessionBps, bpFired, storeChanges, lastSync, cfgAcked, dedupVars, mgrVars, extVars>>

\* the breakpoint store sets the markers of a resource it knows (to the list they
\* were, possibly) and fires onDidChangeMarkers; the session's listener runs
\* updateBreakpoints({uri, sourceModified: true})
StoreChange(uri, list) ==
    /\ storeChanges < MaxStoreChanges
    /\ \E i \in 1..Len(storeUris) : storeUris[i] = uri
    /\ markers' = [markers EXCEPT ![uri] = list]
    /\ storeChanges' = storeChanges + 1
    /\ IF disposed
       THEN UNCHANGED <<syncs, setBpSent>>
       ELSE /\ Len(syncs) < MaxSyncs
            /\ syncs' = Append(syncs, Sync("listener", uri, list))
            /\ setBpSent' = [setBpSent EXCEPT ![uri] = @ + 1]
    /\ UNCHANGED <<sessionVars, threadVars, timerVars, countVars, storeUris, sessionBps,
                   bpFired, lastSync, cfgVars, dedupVars, mgrVars, extVars>>

\* the answer to the setBreakpoints request syncs[i]: it is applied to the
\* breakpoints sent, the deduplicated set is stored and the change is notified;
\* configure goes on with its next resource
SetBreakpointsResponse(i, answer) ==
    LET sync == syncs[i]
        result == SyncResult(sync.all, answer)
        fired == SyncNotifications(GetBreakpoints(sync.uri), result)
    IN /\ ~disposed
       /\ sessionBps' = [sessionBps EXCEPT ![sync.uri] = [has |-> TRUE, list |-> result]]
       /\ bpFired' = [bpFired EXCEPT ![sync.uri] = @ + fired]
       /\ lastSync' = [lastSync EXCEPT ![sync.uri] =
                          [gen |-> IF @.gen = 1 THEN 2 ELSE 1, all |-> sync.all, answer |-> answer,
                           result |-> result, fired |-> fired,
                           repeat |-> @.gen # 0 /\ @.all = sync.all /\ @.answer = answer]]
       /\ IF sync.kind = "configure"
          THEN /\ cfgAcked' = cfgAcked \cup {sync.uri}
               /\ ConfigureFrom(cfgIdx + 1, RemoveAt(syncs, i))
          ELSE /\ syncs' = RemoveAt(syncs, i)
               /\ UNCHANGED <<initialized, pendingThreads, countVars, setBpSent, cfgVars>>
       /\ UNCHANGED <<disposed, capConfigDone, threads, currentThread, refreshed, timerVars, storeVars,
                      storeChanges, dedupVars, mgrVars, extVars>>

\* a failed setBreakpoints request that empties the stored set of its resource
\* and notifies
SetBreakpointsFail_Clear(i) ==
    /\ ~disposed
    /\ syncs' = RemoveAt(syncs, i)
    /\ sessionBps' = [sessionBps EXCEPT ![syncs[i].uri] = [has |-> TRUE, list |-> <<>>]]
    /\ bpFired' = [bpFired EXCEPT ![syncs[i].uri] = @ + 1]
    /\ IF syncs[i].kind = "configure"
       THEN /\ cfgPc' = "failed"
            /\ UNCHANGED <<cfgIdx, cfgSent, cfgAcked, confDone, capAtDecision>>
       ELSE UNCHANGED cfgVars
    /\ Observe("setBreakpoints failed", UriIndex(syncs[i].uri))
    /\ UNCHANGED <<sessionVars, threadVars, timerVars, countVars, storeVars,
                   setBpSent, storeChanges, lastSync, dedupVars, mgrVars, contVars, capVars,
                   lifeVars, fanVars, multiVars>>

\* the setBreakpoints request syncs[i] fails: updateBreakpoints throws, nothing is
\* stored; a configure in progress is abandoned
SetBreakpointsFail(i) ==
    /\ ~disposed
    /\ syncs' = RemoveAt(syncs, i)
    /\ IF syncs[i].kind = "configure"
       THEN /\ cfgPc' = "failed"
            /\ UNCHANGED <<cfgIdx, cfgSent, cfgAcked, confDone, capAtDecision>>
       ELSE UNCHANGED cfgVars
    /\ Observe("setBreakpoints failed", UriIndex(syncs[i].uri))
    /\ UNCHANGED <<sessionVars, threadVars, timerVars, countVars, storeVars, sessionBps,
                   bpFired, setBpSent, storeChanges, lastSync, dedupVars, mgrVars, contVars,
                   capVars, lifeVars, fanVars, multiVars>>

\* the answer to configurationDone: initialized = true, updateThreads(undefined)
ConfigurationDoneResponse ==
    /\ ~disposed
    /\ cfgPc = "confDone"
    /\ cfgPc' = "done"
    /\ confDone' = "acked"
    /\ initialized' = TRUE
    /\ Len(pendingThreads) < MaxPending
    /\ Enqueue(NoDetails, "configure")
    /\ UNCHANGED <<disposed, capConfigDone, threads, currentThread, refreshed, timerVars, storeVars,
                   bpVars, cfgIdx, cfgSent, cfgAcked, capAtDecision, dedupVars, mgrVars, extVars>>

\* a failed configurationDone that configure swallows: initialized = true and the
\* thread refresh all the same
ConfigurationDoneFail_Swallowed ==
    /\ ~disposed
    /\ cfgPc = "confDone"
    /\ cfgPc' = "failed"
    /\ initialized' = TRUE
    /\ Len(pendingThreads) < MaxPending
    /\ Enqueue(NoDetails, "configure")
    /\ UNCHANGED <<disposed, capConfigDone, threads, currentThread, refreshed, timerVars, storeVars,
                   bpVars, cfgIdx, cfgSent, cfgAcked, confDone, capAtDecision, dedupVars, mgrVars,
                   extVars>>

\* configurationDone fails: configure throws before initialized is set
ConfigurationDoneFail ==
    /\ ~disposed
    /\ cfgPc = "confDone"
    /\ cfgPc' = "failed"
    /\ UNCHANGED <<sessionVars, threadVars, timerVars, countVars, storeVars, bpVars,
                   cfgIdx, cfgSent, cfgAcked, confDone, capAtDecision, dedupVars, mgrVars, extVars>>

\* the capability fields that are followed, and the bodies of `capabilities`
\* events and `initialize` responses: any of the fields, each true or false
ConfigDoneField == "supportsConfigurationDoneRequest"
CapFields == {ConfigDoneField, "supportsRestartRequest", "supportsDelayedStackTraceLoading"}
CapBodies == UNION { [F -> BOOLEAN] : F \in SUBSET CapFields }
NoCapabilities == [f \in {} |-> FALSE]

\* a body that names supportsConfigurationDoneRequest only
ConfigDoneBody(value) == [f \in {ConfigDoneField} |-> value]

\* the fields other than supportsConfigurationDoneRequest of a body
OtherFields(body) == [f \in (DOMAIN body) \ {ConfigDoneField} |-> body[f]]

\* Object.assign(this._capabilities, capabilities), on the fields other than
\* supportsConfigurationDoneRequest
UpdateCapabilities(stored, event) ==
    [f \in (DOMAIN stored) \cup (DOMAIN OtherFields(event)) |->
        IF f \in DOMAIN event THEN event[f] ELSE stored[f]]

\* a listener that stores the event's capabilities in the place of the old ones
OnCapabilities_Replace(event) ==
    /\ ~disposed
    /\ capConfigDone' = (ConfigDoneField \in DOMAIN event /\ event[ConfigDoneField])
    /\ capabilities' = OtherFields(event)
    /\ capEvent' = [seq |-> ~capEvent.seq, event |-> event]
    /\ UNCHANGED <<disposed, initialized, threadVars, timerVars, countVars, storeVars,
                   bpVars, cfgVars, dedupVars, mgrVars, contVars, lifeVars, fanVars, multiVars, obsVars>>

\* 'capabilities' listener: updateCapabilities merges the event's fields
OnCapabilities(event) ==
    /\ ~disposed
    /\ capConfigDone' = IF ConfigDoneField \in DOMAIN event THEN event[ConfigDoneField]
                        ELSE capConfigDone
    /\ capabilities' = UpdateCapabilities(capabilities, event)
    /\ capEvent' = [seq |-> ~capEvent.seq, event |-> event]
    /\ UNCHANGED <<disposed, initialized, threadVars, timerVars, countVars, storeVars,
                   bpVars, cfgVars, dedupVars, mgrVars, contVars, lifeVars, fanVars, multiVars, obsVars>>

\* a dispose without the hook that runs clearBreakpoints() and doUpdateThreads([]):
\* the connection is disposed and the maps are left as they are
DisposeSession_NoHook ==
    /\ disposed' = TRUE
    /\ pendingThreads' = <<>>
    /\ threadsRejected' =
           [o \in Counted |->
               threadsRejected[o]
               + Cardinality({i \in 2..Len(pendingThreads) : pendingThreads[i].origin = o})]
    /\ syncs' = <<>>
    /\ cfgPc' = IF cfgPc \in {"bp", "confDone"} THEN "failed" ELSE cfgPc
    /\ fanPending' = {}
    /\ fanFailed' = fanFailed \cup fanPending
    /\ fanResult' = IF fanResult = "pending" THEN "resolved" ELSE fanResult
    /\ UNCHANGED <<fanKind, fanTargets, fanSent>>
    /\ UNCHANGED <<initialized, capConfigDone, threads, currentThread, refreshed, timerVars,
                   threadsSent, storeVars, sessionBps, bpFired, setBpSent,
                   storeChanges, lastSync, cfgIdx, cfgSent, cfgAcked, confDone,
                   capAtDecision>>

\* DebugSession.dispose: the connection is disposed, which fails every request in
\* flight (the refreshes chained behind one are then refused and logged), and
\* clearBreakpoints() and doUpdateThreads([]) run
DisposeSession ==
    /\ disposed' = TRUE
    /\ sessionBps' = [u \in Uris |-> [has |-> FALSE, list |-> <<>>]]
    /\ bpFired' = [u \in Uris |-> IF sessionBps[u].has THEN bpFired[u] + 1 ELSE bpFired[u]]
    /\ threads' = DoUpdateThreads(threads, <<>>, NoDetails)
    /\ currentThread' = UpdateCurrentThread(threads', currentThread, NoDetails)
    /\ pendingThreads' = <<>>
    /\ threadsRejected' =
           [o \in Counted |->
               threadsRejected[o]
               + Cardinality({i \in 2..Len(pendingThreads) : pendingThreads[i].origin = o})]
    /\ syncs' = <<>>
    /\ cfgPc' = IF cfgPc \in {"bp", "confDone"} THEN "failed" ELSE cfgPc
    /\ fanPending' = {}
    /\ fanFailed' = fanFailed \cup fanPending
    /\ fanResult' = IF fanResult = "pending" THEN "resolved" ELSE fanResult
    /\ UNCHANGED <<fanKind, fanTargets, fanSent>>
    /\ UNCHANGED <<initialized, capConfigDone, refreshed, timerVars, threadsSent, storeVars,
                   setBpSent,
                   storeChanges, lastSync, cfgIdx, cfgSent, cfgAcked, confDone,
                   capAtDecision>>

Dispose ==
    /\ ~disposed
    /\ DisposeSession
    /\ UNCHANGED <<dedupVars, mgrVars, contVars, capVars, lifeVars, multiVars, obsVars>>


\* ---------------------------------------------- pauseAll / continueAll
\* the rest of the session is left alone by a step of pauseAll / continueAll
FanFrame ==
    UNCHANGED <<sessionVars, threadVars, timerVars, countVars, storeVars, bpVars, cfgVars,
                dedupVars, mgrVars, contVars, capVars, lifeVars, multiVars, obsVars>>

\* runningThreads / stoppedThreads: the threads of the map a call applies to
RunningThreads(ts) == {i \in 1..Len(ts) : ~Stopped(ts[i])}
StoppedThreads(ts) == {i \in 1..Len(ts) : Stopped(ts[i])}

\* the loop of pauseAll / continueAll over the threads at the positions `which`:
\* thread.pause() / thread.continue() sends one request per thread before the call
\* awaits anything; a closed connection refuses each of them
FanOut(kind, which) ==
    /\ fanResult # "pending"
    /\ fanKind' = kind
    /\ fanTargets' = {threads[i].id : i \in which}
    /\ fanSent' = [t \in ThreadIds |-> Cardinality({i \in which : threads[i].id = t})]
    /\ fanPending' = IF disposed THEN {} ELSE {threads[i].id : i \in which}
    /\ fanFailed' = IF disposed THEN {threads[i].id : i \in which} ELSE {}
    /\ fanResult' = IF fanPending' = {} THEN "resolved" ELSE "pending"
    /\ FanFrame

\* DebugSession.pauseAll
PauseAll == FanOut("pause", RunningThreads(threads))

\* DebugSession.continueAll
ContinueAll == FanOut("continue", StoppedThreads(threads))

\* the request of thread t is answered; Promise.all resolves with the last one
FanResponse(t) ==
    /\ ~disposed
    /\ t \in fanPending
    /\ fanPending' = fanPending \ {t}
    /\ fanResult' = IF fanPending' = {} THEN "resolved" ELSE fanResult
    /\ UNCHANGED <<fanKind, fanTargets, fanSent, fanFailed>>
    /\ FanFrame

\* a call without the try/catch around the request: Promise.all rejects with the
\* first failure
FanFail_Abort(t) ==
    /\ ~disposed
    /\ t \in fanPending
    /\ fanPending' = fanPending \ {t}
    /\ fanFailed' = fanFailed \cup {t}
    /\ fanResult' = "rejected"
    /\ UNCHANGED <<fanKind, fanTargets, fanSent>>
    /\ FanFrame

\* the request of thread t is rejected: caught and logged
FanFail(t) ==
    /\ ~disposed
    /\ t \in fanPending
    /\ fanPending' = fanPending \ {t}
    /\ fanFailed' = fanFailed \cup {t}
    /\ fanResult' = IF fanPending' = {} THEN "resolved" ELSE fanResult
    /\ UNCHANGED <<fanKind, fanTargets, fanSent>>
    /\ FanFrame

\* ------------------------------------------------- DebugSession.start
\* the rest of the session is left alone by a step of start()
StartFrame ==
    UNCHANGED <<disposed, initialized, threadVars, timerVars, countVars, storeVars, bpVars,
                cfgVars, dedupVars, mgrVars, contVars, capEvent, fanVars, multiVars, obsVars>>

\* DebugSessionManager.doDestroy(session), as the manager's 'exited' listener runs
\* it: the session is disposed and leaves _sessions. The requests in flight are
\* failed by the disposal: start() rejects out of initialize, and launchOrAttach
\* catches, fires `exited` on the closed connection and shows the message
DestroySession ==
    /\ DisposeSession
    /\ registered' = FALSE
    /\ startPc' = CASE startPc = "initialize" -> "rejected"
                    [] startPc = "launch" -> "message"
                    [] OTHER -> startPc
    /\ startFailure' = IF startPc \in {"initialize", "launch"} THEN startPc ELSE startFailure
    /\ exitedFired' = IF startPc = "launch" THEN exitedFired + 1 ELSE exitedFired
    /\ messages' = IF startPc = "launch" THEN messages + 1 ELSE messages

\* DebugSession.start(), called by doStart on the session it has registered:
\* initialize() sends `initialize`
Start ==
    /\ ~disposed
    /\ startPc = "off"
    /\ startPc' = "initialize"
    /\ UNCHANGED <<startFailure, exitedFired, launchSent, messages, registered, capConfigDone,
                   capabilities>>
    /\ StartFrame

\* the `initialize` response: _capabilities = response.body || {}, then
\* launchOrAttach sends `launch` or `attach`
InitializeResponse(body) ==
    /\ ~disposed
    /\ startPc = "initialize"
    /\ capConfigDone' = (ConfigDoneField \in DOMAIN body /\ body[ConfigDoneField])
    /\ capabilities' = OtherFields(body)
    /\ startPc' = "launch"
    /\ launchSent' = launchSent + 1
    /\ UNCHANGED <<startFailure, exitedFired, messages, registered>>
    /\ UNCHANGED <<disposed, initialized, threadVars, timerVars, countVars, storeVars, bpVars,
                   cfgVars, dedupVars, mgrVars, contVars, capEvent, fanVars, multiVars, obsVars>>

\* the `initialize` request is rejected: start() rejects
InitializeFail ==
    /\ ~disposed
    /\ startPc = "initialize"
    /\ startPc' = "rejected"
    /\ startFailure' = "initialize"
    /\ UNCHANGED <<exitedFired, launchSent, messages, registered, capConfigDone, capabilities>>
    /\ StartFrame

\* the `launch` or `attach` request is answered: start() resolves
LaunchResponse ==
    /\ ~disposed
    /\ startPc = "launch"
    /\ startPc' = "started"
    /\ UNCHANGED <<startFailure, exitedFired, launchSent, messages, registered, capConfigDone,
                   capabilities>>
    /\ StartFrame

\* a launchOrAttach without the catch: the rejection goes to the caller of start()
\* and nothing else happens
LaunchFail_Silent ==
    /\ ~disposed
    /\ startPc = "launch"
    /\ startPc' = "rejected"
    /\ startFailure' = "launch"
    /\ UNCHANGED <<exitedFired, launchSent, messages, registered, capConfigDone, capabilities>>
    /\ StartFrame

\* the `launch` or `attach` request is rejected: launchOrAttach fires `exited` on
\* the connection, which the manager's listener answers with destroy(session.id),
\* and shows the error message
LaunchFail ==
    /\ ~disposed
    /\ startPc = "launch"
    /\ DestroySession
    /\ UNCHANGED <<launchSent, capabilities, capEvent, contVars, dedupVars, mgrVars, multiVars, obsVars>>

\* the error message is closed: launchOrAttach throws the reason, start() rejects
MessageClosed ==
    /\ startPc = "message"
    /\ startPc' = "rejected"
    /\ UNCHANGED <<startFailure, exitedFired, launchSent, messages, registered, capConfigDone,
                   capabilities>>
    /\ StartFrame

\* the adapter's `exited` event: the manager's listener runs destroy(session.id)
OnExited ==
    /\ ~disposed
    /\ DestroySession
    /\ UNCHANGED <<launchSent, capabilities, capEvent, contVars, dedupVars, mgrVars, multiVars, obsVars>>

\* ------------------------------------------- dedupBreakpoints on its own
\* a breakpoint as updateBreakpoints hands it to dedupBreakpoints: disabled and
\* never sent, or enabled and carrying the adapter's answer
DedupBreakpointsOf(id) ==
    { [origins |-> <<[id |-> id, line |-> l, enabled |-> FALSE]>>, hasRaw |-> FALSE,
       rawLine |-> 0] : l \in Lines }
    \cup { [origins |-> <<[id |-> id, line |-> l, enabled |-> TRUE]>>, hasRaw |-> TRUE,
            rawLine |-> r] : l \in Lines, r \in Lines }

DedupInputs ==
    UNION { { s \in [1..n -> UNION { DedupBreakpointsOf(i) : i \in 1..n }] :
                \A i \in 1..n : Origin(s[i]).id = i }
            : n \in 0..MaxDedup }

\* the reorderings of n breakpoints that exchange two of them (or none)
Orderings(n) ==
    { [k \in 1..n |-> IF k = i THEN j ELSE IF k = j THEN i ELSE k] : i, j \in 1..n }

\* dedupBreakpoints(all), and dedupBreakpoints of the same breakpoints in another order
DedupCall(p) ==
    /\ dPc = "input"
    /\ dPc' = "done"
    /\ dPerm' = [i \in 1..Len(dAll) |-> dAll[p[i]]]
    /\ dOut' = DedupBreakpoints(dAll)
    /\ dOutPerm' = DedupBreakpoints(dPerm')
    /\ UNCHANGED <<dAll, sessionVars, threadVars, timerVars, countVars, storeVars, bpVars,
                   cfgVars, mgrVars, extVars>>

\* --------------------------------------------------- DebugSessionManager
Names == {"X", "Y"}

\* a numbering that counts the sessions of the name that are alive
NextConfigurationId_Live(ids, name) ==
    Cardinality({c \in DOMAIN mgrSessions : c.name = name /\ mgrSessions[c] > 0})

\* the configurationId resolveConfiguration gives an unresolved configuration
NextConfigurationId(ids, name) == IF ids[name] # -1 THEN ids[name] + 1 ELSE 0

TotalCalls == calls["X"] + calls["Y"]

\* the sessions of _sessions started from one configuration
Config(name, configurationId) == [name |-> name, configurationId |-> configurationId]
Configs == [name : Names, configurationId : -1..MaxStarts]

\* DebugSessionManager.start(configuration) with a configuration that is not yet
\* resolved: resolveConfiguration awaits debugService.resolveDebugConfiguration
MgrStart(name) ==
    /\ TotalCalls < MaxStarts
    /\ calls' = [calls EXCEPT ![name] = @ + 1]
    /\ resolving' = resolving \cup {[name |-> name, call |-> calls'[name],
                                     stage |-> "resolve", number |-> -1]}
    /\ UNCHANGED <<configurationIds, mgrSessions, received, restarts, destroyed,
                   sessionVars, threadVars, timerVars, countVars, storeVars, bpVars,
                   cfgVars, dedupVars, extVars>>

\* resolveDebugConfiguration has answered the start call r: the configuration is
\* marked resolved and numbered; debugService.create is awaited
MgrResolved(r) ==
    LET configurationId == NextConfigurationId(configurationIds, r.name)
    IN /\ r.stage = "resolve"
       /\ configurationIds' = [configurationIds EXCEPT ![r.name] = configurationId]
       /\ resolving' = (resolving \ {r})
                       \cup {[r EXCEPT !.stage = "create", !.number = configurationId]}
       /\ received' = [received EXCEPT ![r.name] =
                          Append(@, [number |-> configurationId, fresh |-> TRUE,
                                     afterDestroy |-> destroyed[r.name]])]
       /\ UNCHANGED <<mgrSessions, calls, restarts, destroyed, sessionVars, threadVars,
                      timerVars, countVars, storeVars, bpVars, cfgVars, dedupVars, extVars>>

\* debugService.create has answered the start call r: doStart registers the session
MgrCreated(r) ==
    /\ r.stage = "create"
    /\ mgrSessions' = [mgrSessions EXCEPT ![Config(r.name, r.number)] = @ + 1]
    /\ resolving' = resolving \ {r}
    /\ UNCHANGED <<configurationIds, calls, received, restarts, destroyed, sessionVars,
                   threadVars, timerVars, countVars, storeVars, bpVars, cfgVars, dedupVars, extVars>>

\* doRestart(session) once disconnect is answered: start(session.configuration);
\* the configuration is already resolved and resolveConfiguration returns it as it is
MgrRestart(configuration) ==
    /\ mgrSessions[configuration] > 0
    /\ TotalCalls < MaxStarts
    /\ restarts < MaxRestarts
    /\ restarts' = restarts + 1
    /\ calls' = [calls EXCEPT ![configuration.name] = @ + 1]
    /\ resolving' = resolving \cup {[name |-> configuration.name,
                                     call |-> calls'[configuration.name],
                                     stage |-> "create",
                                     number |-> configuration.configurationId]}
    /\ received' = [received EXCEPT ![configuration.name] =
                       Append(@, [number |-> configuration.configurationId,
                                  fresh |-> FALSE,
                                  afterDestroy |-> destroyed[configuration.name]])]
    /\ UNCHANGED <<configurationIds, mgrSessions, destroyed, sessionVars, threadVars,
                   timerVars, countVars, storeVars, bpVars, cfgVars, dedupVars, extVars>>

\* destroy(sessionId) / remove: a session of this configuration leaves _sessions
MgrDestroy(configuration) ==
    /\ mgrSessions[configuration] > 0
    /\ mgrSessions' = [mgrSessions EXCEPT ![configuration] = @ - 1]
    /\ destroyed' = [destroyed EXCEPT ![configuration.name] = TRUE]
    /\ UNCHANGED <<configurationIds, resolving, calls, received, restarts, sessionVars,
                   threadVars, timerVars, countVars, storeVars, bpVars, cfgVars, dedupVars, extVars>>

\* -------------------------- DebugSessionManager with several sessions
NoSession == 0
SessionIds == 1..MaxSessions
\* restart() returns undefined
Undefined == -1

\* the keys of a session's _breakpoints, in the order the map holds them
UriLists ==
    UNION { { s \in [1..n -> Uris] : \A i, j \in 1..n : i # j => s[i] # s[j] }
            : n \in 0..Cardinality(Uris) }

\* a DebugSession as sessionFactory.get makes it: capabilities {}, not initialized
\* and no breakpoints stored; restartOf names the session whose doRestart started it
NewSession(configuration, restartOf) ==
    [disposed |-> FALSE, initialized |-> FALSE,
     supportsRestartRequest |-> FALSE, configuration |-> configuration,
     restartOf |-> restartOf, breakpointUris |-> <<>>]

NoDebugSession == NewSession("none", NoSession)

\* DebugSession.state as the manager reads it: Running stands for Running and Stopped
SessionState(s) ==
    IF s.disposed THEN "Inactive"
    ELSE IF ~s.initialized THEN "Initializing"
    ELSE "Running"

\* the manager as the synchronous code of one operation reads and writes it: events
\* counts the active-session-changed events of the operation, fired lists them with
\* its breakpoint-changed notifications, log lists its steps
Manager ==
    [all |-> allSessions, of |-> debugSessions, current |-> currentSession,
     events |-> 0, fired |-> <<>>, log |-> <<>>]

\* _sessions.has(id) / _sessions.get(id)
InSessions(m, id) == \E i \in 1..Len(m.all) : m.all[i] = id

\* get sessions(): the sessions of _sessions with state > Inactive, in insertion order
Sessions(m) ==
    LET Active(id) == SessionState(m.of[id]) # "Inactive"
    IN SelectSeq(m.all, Active)

\* onDidChangeActiveDebugSessionEmitter.fire({previous, current})
ActiveChanged(previous, current) ==
    [event |-> "active", previous |-> previous, session |-> current, uri |-> "none"]

\* fireDidChangeBreakpoints({session, uri})
BreakpointsChanged(session, uri) ==
    [event |-> "breakpoints", previous |-> NoSession, session |-> session, uri |-> uri]

\* session.breakpointUris of a session or of undefined
BreakpointUris(m, id) == IF id = NoSession THEN <<>> ELSE m.of[id].breakpointUris

\* an updateBreakpoints without the set of the resources it has notified
UpdateBreakpoints_NoDedup(m, previous, current) ==
    LET uris == BreakpointUris(m, previous) \o BreakpointUris(m, current)
    IN [i \in 1..Len(uris) |-> BreakpointsChanged(current, uris[i])]

\* DebugSessionManager.updateBreakpoints(previous, current): the resources of the
\* previous and then of the current session, each notified when it is met first
UpdateBreakpoints(m, previous, current) ==
    LET uris == BreakpointUris(m, previous) \o BreakpointUris(m, current)
        First(i) == \A j \in 1..(i - 1) : uris[j] # uris[i]
        Firsts == { i \in 1..Len(uris) : First(i) }
        Place(k) == CHOOSE i \in Firsts : Cardinality({ j \in Firsts : j < i }) = k - 1
    IN [k \in 1..Cardinality(Firsts) |-> BreakpointsChanged(current, uris[Place(k)])]

\* set currentSession(current): nothing when it is the current one already,
\* otherwise onDidChangeActiveDebugSession fires once and updateBreakpoints runs
SetCurrentSession(m, current) ==
    IF m.current = current THEN m
    ELSE [m EXCEPT !.current = current, !.events = @ + 1,
                   !.fired = @ \o <<ActiveChanged(m.current, current)>>
                               \o UpdateBreakpoints(m, m.current, current)]

\* updateCurrentSession(session): this.currentSession = session || this.sessions[0]
UpdateCurrentSession(m, id) ==
    SetCurrentSession(m, IF id # NoSession THEN id
                         ELSE IF Len(Sessions(m)) > 0 THEN Sessions(m)[1]
                         ELSE NoSession)

\* a step of doDestroy begins: what it finds is written to the log
Logged(step, m, id) ==
    [m EXCEPT !.log = Append(@, [step |-> step, id |-> id,
                                 registered |-> InSessions(m, id),
                                 disposed |-> m.of[id].disposed])]

\* doDestroy: this.debugService.stop(session.id), a call that is not awaited
StopAdapter(m, id) == Logged("stop", m, id)

\* doDestroy: session.dispose(). The connection is disposed, then the session's
\* dispose hook runs doUpdateThreads([]), which fires the session's onDidChange:
\* the listener of doStart calls updateCurrentSession(session)
DisposeOf(m, id) ==
    LET uris == m.of[id].breakpointUris
        cleared == [i \in 1..Len(uris) |-> BreakpointsChanged(id, uris[i])]
    IN UpdateCurrentSession([Logged("dispose", m, id) EXCEPT
                                 !.of[id].disposed = TRUE,
                                 !.of[id].breakpointUris = <<>>,
                                 !.fired = @ \o cleared], id)

\* a remove that leaves the current session alone
Remove_KeepCurrent(m, id) ==
    LET l == Logged("remove", m, id)
        Others(i) == i # id
    IN [l EXCEPT !.all = SelectSeq(l.all, Others)]

\* DebugSessionManager.remove
Remove(m, id) ==
    LET l == Logged("remove", m, id)
        Others(i) == i # id
        r == [l EXCEPT !.all = SelectSeq(l.all, Others)]
    IN IF r.current # NoSession /\ r.current = id
       THEN UpdateCurrentSession(r, NoSession)
       ELSE r

\* doDestroy: this.onDidDestroyDebugSessionEmitter.fire(session)
FireDidDestroy(m, id) == Logged("destroyed", m, id)

\* a doDestroy that announces the destruction before it removes the session
DoDestroy_FireFirst(m, id) ==
    Remove(FireDidDestroy(DisposeOf(StopAdapter(m, id), id), id), id)

\* a doDestroy that removes the session before it disposes it
DoDestroy_RemoveFirst(m, id) ==
    FireDidDestroy(DisposeOf(Remove(StopAdapter(m, id), id), id), id)

\* DebugSessionManager.doDestroy
DoDestroy(m, id) ==
    FireDidDestroy(Remove(DisposeOf(StopAdapter(m, id), id), id), id)

\* this._sessions.forEach(session => this.doDestroy(session)): every entry is visited
\* in insertion order, the deletion of the visited entry does not disturb the walk
RECURSIVE DestroyFrom(_, _, _)
DestroyFrom(m, ids, i) ==
    IF i > Len(ids) THEN m ELSE DestroyFrom(DoDestroy(m, ids[i]), ids, i + 1)

\* the manager after the synchronous code that made m of it
Becomes(m) ==
    /\ allSessions' = m.all
    /\ debugSessions' = m.of
    /\ currentSession' = m.current

\* the resources of the breakpoints of two sessions, each of which may be undefined
Touched(previous, current) ==
    LET uris == BreakpointUris(Manager, previous) \o BreakpointUris(Manager, current)
    IN { uris[i] : i \in 1..Len(uris) }

\* the manager after a call that made m of it, and the record of the call
Apply(m, kind, id) ==
    /\ Becomes(m)
    /\ lastOp' = [kind |-> kind, id |-> id, all |-> allSessions,
                  current |-> currentSession, sessions |-> Sessions(Manager),
                  events |-> m.events, log |-> m.log, left |-> m.all,
                  after |-> m.current, fired |-> m.fired,
                  touched |-> Touched(currentSession, id)]

\* the single session of the other parts is left alone by the manager's steps
MultiFrame ==
    UNCHANGED <<sessionVars, threadVars, timerVars, countVars, storeVars, bpVars, cfgVars,
                dedupVars, mgrVars, contVars, capVars, lifeVars, fanVars, obsVars>>

\* start(configuration): the configuration is resolved, debugService.create is awaited
StartSession(configuration) ==
    /\ created + Len(creating) < MaxSessions
    /\ creating' = Append(creating, [configuration |-> configuration,
                                     restartOf |-> NoSession])
    /\ UNCHANGED <<allSessions, debugSessions, created, currentSession, restartPc,
                   requests, restartResult, lastOp>>
    /\ MultiFrame

\* debugService.create has answered the i-th waiting start: doStart makes the session,
\* puts it into _sessions, registers its listeners and calls session.start()
SessionCreated(i) ==
    LET c == creating[i]
        id == created + 1
        m == [Manager EXCEPT !.all = Append(@, id),
                             !.of[id] = NewSession(c.configuration, c.restartOf)]
    IN /\ i \in 1..Len(creating)
       /\ created' = id
       /\ creating' = RemoveAt(creating, i)
       /\ Becomes(m)
       /\ UNCHANGED lastOp
       /\ restartPc' = IF c.restartOf # NoSession
                       THEN [restartPc EXCEPT ![c.restartOf] = "done"] ELSE restartPc
       /\ restartResult' = IF c.restartOf # NoSession
                           THEN [restartResult EXCEPT ![c.restartOf] = id]
                           ELSE restartResult
       /\ UNCHANGED requests
       /\ MultiFrame

\* the initialize response or a capabilities event sets supportsRestartRequest
SessionCapabilities(id, value) ==
    /\ InSessions(Manager, id)
    /\ debugSessions[id].supportsRestartRequest # value
    /\ debugSessions' = [debugSessions EXCEPT ![id].supportsRestartRequest = value]
    /\ UNCHANGED <<allSessions, created, currentSession, creating, restartPc, requests,
                   restartResult, lastOp>>
    /\ MultiFrame

\* configure() of the session sets initialized
SessionInitialized(id) ==
    /\ InSessions(Manager, id)
    /\ ~debugSessions[id].initialized
    /\ debugSessions' = [debugSessions EXCEPT ![id].initialized = TRUE]
    /\ UNCHANGED <<allSessions, created, currentSession, creating, restartPc, requests,
                   restartResult, lastOp>>
    /\ MultiFrame

\* the session fires onDidChange (its current thread is set, a thread changes):
\* session.onDidChange(() => this.updateCurrentSession(session))
SessionChanged(id) ==
    /\ InSessions(Manager, id)
    /\ Becomes(UpdateCurrentSession(Manager, id))
    /\ UNCHANGED <<created, creating, restartPc, requests, restartResult, lastOp>>
    /\ MultiFrame

\* a resync of the session stores the breakpoints of a resource for the first
\* time: its _breakpoints gets a key
SessionBreakpoints(id, uris) ==
    /\ InSessions(Manager, id)
    /\ ~debugSessions[id].disposed
    /\ Len(uris) = Len(debugSessions[id].breakpointUris) + 1
    /\ SubSeq(uris, 1, Len(uris) - 1) = debugSessions[id].breakpointUris
    /\ debugSessions' = [debugSessions EXCEPT ![id].breakpointUris = uris]
    /\ UNCHANGED <<allSessions, created, currentSession, creating, restartPc, requests,
                   restartResult, lastOp>>
    /\ MultiFrame

\* manager.currentSession = session, for a registered session or undefined
AssignCurrentSession(id) ==
    /\ id = NoSession \/ InSessions(Manager, id)
    /\ Apply(SetCurrentSession(Manager, id), "set", id)
    /\ UNCHANGED <<created, creating, restartPc, requests, restartResult>>
    /\ MultiFrame

\* the requests of a disposed connection are rejected
Rejected(ids) ==
    [i \in SessionIds |-> IF i \in ids /\ restartPc[i] \in {"restart", "disconnect"}
                          THEN "rejected" ELSE restartPc[i]]

\* destroy(sessionId)
Destroy(id) ==
    /\ InSessions(Manager, id)
    /\ Apply(DoDestroy(Manager, id), "destroy", id)
    /\ restartPc' = Rejected({id})
    /\ UNCHANGED <<created, creating, requests, restartResult>>
    /\ MultiFrame

\* the `exited` event of a session: session.on('exited', () => this.destroy(session.id))
SessionExited(id) ==
    /\ InSessions(Manager, id)
    /\ Becomes(DoDestroy(Manager, id))
    /\ restartPc' = Rejected({id})
    /\ UNCHANGED <<created, creating, requests, restartResult, lastOp>>
    /\ MultiFrame

\* destroy() without a session id
DestroyAll ==
    /\ Len(allSessions) > 0
    /\ Apply(DestroyFrom(Manager, allSessions, 1), "destroyAll", NoSession)
    /\ restartPc' = Rejected(SessionIds)
    /\ UNCHANGED <<created, creating, requests, restartResult>>
    /\ MultiFrame

\* sessions started from outside where each restart may start one more
MaxRestartable == MaxSessions - MaxRestarts

\* restarts begun so far
Restarted == {i \in SessionIds : restartPc[i] # "none"}

\* a doRestart that starts the new session without waiting for the disconnect
DoRestart_NoWait(id, by) ==
    /\ requests' = [requests EXCEPT ![id].disconnect = @ + 1, ![id].by = by]
    /\ restartPc' = [restartPc EXCEPT ![id] = "create"]
    /\ creating' = Append(creating, [configuration |-> debugSessions[id].configuration,
                                     restartOf |-> id])

\* doRestart up to its await: session.disconnect({ restart: true }) is sent
DoRestart(id, by) ==
    /\ requests' = [requests EXCEPT ![id].disconnect = @ + 1, ![id].by = by]
    /\ restartPc' = [restartPc EXCEPT ![id] = "disconnect"]
    /\ UNCHANGED creating

\* restart(session), restart() when arg is NoSession: each session is restarted once
Restart(arg) ==
    LET id == IF arg # NoSession THEN arg ELSE currentSession
    IN /\ arg = NoSession \/ InSessions(Manager, arg)
       /\ id # NoSession => restartPc[id] = "none" /\ Cardinality(Restarted) < MaxRestarts
       /\ IF id = NoSession
          THEN /\ restartResult' = [restartResult EXCEPT ![NoSession] = Undefined]
               /\ UNCHANGED <<creating, restartPc, requests>>
          ELSE /\ UNCHANGED restartResult
               /\ IF debugSessions[id].supportsRestartRequest
                  THEN /\ requests' = [requests EXCEPT ![id].restart = @ + 1,
                                                       ![id].by = "restart"]
                       /\ restartPc' = [restartPc EXCEPT ![id] = "restart"]
                       /\ UNCHANGED creating
                  ELSE DoRestart(id, "restart")
       /\ UNCHANGED <<allSessions, debugSessions, created, currentSession, lastOp>>
       /\ MultiFrame

\* the `terminated` event of a session with body.restart: doRestart(session, restart)
OnTerminated(id) ==
    /\ InSessions(Manager, id)
    /\ restartPc[id] = "none"
    /\ Cardinality(Restarted) < MaxRestarts
    /\ DoRestart(id, "terminated")
    /\ UNCHANGED <<allSessions, debugSessions, created, currentSession, restartResult,
                   lastOp>>
    /\ MultiFrame

\* the adapter answers the `restart` request: restart returns the session
RestartResponse(id) ==
    /\ restartPc[id] = "restart"
    /\ restartPc' = [restartPc EXCEPT ![id] = "done"]
    /\ restartResult' = [restartResult EXCEPT ![id] = id]
    /\ UNCHANGED <<allSessions, debugSessions, created, currentSession, creating,
                   requests, lastOp>>
    /\ MultiFrame

\* the adapter refuses the `restart` or the `disconnect` request: the restart is rejected
RestartFail(id) ==
    /\ restartPc[id] \in {"restart", "disconnect"}
    /\ restartPc' = [restartPc EXCEPT ![id] = "rejected"]
    /\ UNCHANGED <<allSessions, debugSessions, created, currentSession, creating,
                   requests, restartResult, lastOp>>
    /\ MultiFrame

\* the adapter answers the `disconnect` of doRestart: this.start(configuration)
DisconnectResponse(id) ==
    /\ restartPc[id] = "disconnect"
    /\ created + Len(creating) < MaxSessions
    /\ restartPc' = [restartPc EXCEPT ![id] = "create"]
    /\ requests' = [requests EXCEPT ![id].answered = TRUE]
    /\ creating' = Append(creating, [configuration |-> debugSessions[id].configuration,
                                     restartOf |-> id])
    /\ UNCHANGED <<allSessions, debugSessions, created, currentSession,
                   restartResult, lastOp>>
    /\ MultiFrame

\* ------------------------------------------------------- specifications
\* a session as its constructor leaves it
InitSessionState ==
    /\ disposed = FALSE
    /\ initialized = FALSE
    /\ threads = <<>>
    /\ currentThread = NoThread
    /\ pendingThreads = <<>>
    /\ refreshed = FALSE
    /\ timer = 0
    /\ bursts = 0
    /\ burstEvents = 0
    /\ sinceStarted = DebounceMs
    /\ lastFireGap = -1
    /\ threadsSent = [o \in Counted |-> 0]
    /\ threadsRejected = [o \in Counted |-> 0]
    /\ sessionBps = [u \in Uris |-> [has |-> FALSE, list |-> <<>>]]
    /\ cfgPc = "idle"
    /\ cfgIdx = 0
    /\ syncs = <<>>
    /\ bpFired = [u \in Uris |-> 0]
    /\ setBpSent = [u \in Uris |-> 0]
    /\ storeChanges = 0
    /\ lastSync = [u \in Uris |-> [gen |-> 0, all |-> <<>>, answer |-> <<>>,
                                  result |-> <<>>, fired |-> 0, repeat |-> FALSE]]
    /\ cfgSent = <<>>
    /\ cfgAcked = {}
    /\ confDone = "no"
    /\ capAtDecision = "unread"
    /\ continued = [seq |-> FALSE, allThreadsContinued |-> "absent", threadId |-> NoThread]
    /\ capabilities = NoCapabilities
    /\ capEvent = [seq |-> FALSE, event |-> NoCapabilities]
    /\ startPc = "off"
    /\ startFailure = "none"
    /\ exitedFired = 0
    /\ launchSent = 0
    /\ messages = 0
    /\ registered = TRUE
    /\ fanKind = "none"
    /\ fanTargets = {}
    /\ fanSent = [t \in ThreadIds |-> 0]
    /\ fanPending = {}
    /\ fanFailed = {}
    /\ fanResult = "none"

InitNoStore ==
    /\ storeUris = <<>>
    /\ markers = [u \in Uris |-> <<>>]

InitNoDedup ==
    /\ dAll = <<>>
    /\ dPerm = <<>>
    /\ dOut = <<>>
    /\ dOutPerm = <<>>
    /\ dPc = "off"

InitManager ==
    /\ configurationIds = [n \in Names |-> -1]
    /\ resolving = {}
    /\ mgrSessions = [c \in Configs |-> 0]
    /\ calls = [n \in Names |-> 0]
    /\ received = [n \in Names |-> <<>>]
    /\ restarts = 0
    /\ destroyed = [n \in Names |-> FALSE]
    /\ allSessions = <<>>
    /\ debugSessions = [id \in SessionIds |-> NoDebugSession]
    /\ created = 0
    /\ currentSession = NoSession
    /\ creating = <<>>
    /\ restartPc = [id \in SessionIds |-> "none"]
    /\ requests = [id \in SessionIds |-> [restart |-> 0, disconnect |-> 0,
                                           answered |-> FALSE, by |-> "none"]]
    /\ restartResult = [id \in SessionIds \cup {NoSession} |-> NoSession]
    /\ lastOp = [kind |-> "none", id |-> NoSession, all |-> <<>>, current |-> NoSession,
                 sessions |-> <<>>, events |-> 0, log |-> <<>>, left |-> <<>>,
                 after |-> NoSession, fired |-> <<>>, touched |-> {}]

\* the markers after one edit of a resource's breakpoints: set again as they are,
\* the first toggled, the last removed, one added on line 1
Edits(list) ==
    {list}
    \cup (IF Len(list) > 0
          THEN { [list EXCEPT ![1].enabled = ~@], SubSeq(list, 1, Len(list) - 1) }
          ELSE {})
    \cup (IF Len(list) < MaxMarkers
          THEN { Append(list, [id |-> Len(list) + 1, line |-> 1, enabled |-> TRUE]) }
          ELSE {})

\* one session and its adapter: threads, stop and continue events
\* the observer is off unless a specification switches it on
NotObserving == [on |-> FALSE, what |-> "nothing", arg |-> 0, event |-> "nothing"]
Observing == [on |-> TRUE, what |-> "nothing", arg |-> 0, event |-> "nothing"]

InitSession ==
    /\ InitSessionState
    /\ observed = NotObserving

Init ==
    /\ InitSession
    /\ capConfigDone \in BOOLEAN
    /\ InitNoStore
    /\ InitNoDedup
    /\ InitManager

Next ==
    \/ OnInitialized
    \/ ConfigurationDoneResponse
    \/ ConfigurationDoneFail
    \/ \E a \in {"true", "false", "absent"}, t \in ThreadIds : OnContinued(a, t)
    \/ \E body \in StopBodies : OnStopped(body)
    \/ \E t \in ThreadIds : OnThreadExited(t)
    \/ \E list \in ThreadLists : ThreadsResponse(list)
    \/ ThreadsFail
    \/ \E t \in ThreadIds : SetCurrentThread(t)
    \/ Dispose

Spec == Init /\ [][Next]_vars

\* one session and its adapter: thread-started events and the debounced refresh,
\* next to the refreshes of configure and of one kind of stopped event
NextDebounce ==
    \/ OnInitialized
    \/ ConfigurationDoneResponse
    \/ OnThreadStarted
    \/ Tick
    \/ OnStopped([threadId |-> 1, preserveFocusHint |-> FALSE])
    \/ \E list \in {<<>>, <<1>>} : ThreadsResponse(list)
    \/ ThreadsFail
    \/ Dispose

SpecDebounce == Init /\ [][NextDebounce]_vars

\* the same, with the observer of the refreshes switched on
InitObserved ==
    /\ InitSessionState
    /\ observed = Observing
    /\ capConfigDone \in BOOLEAN
    /\ InitNoStore
    /\ InitNoDedup
    /\ InitManager

SpecRefresh == InitObserved /\ [][NextDebounce]_vars

\* one session and its adapter: threads stop and exit, observed
NextThreads ==
    \/ \E body \in StopBodies : OnStopped(body)
    \/ \E t \in ThreadIds : OnThreadExited(t)
    \/ \E list \in ThreadLists : ThreadsResponse(list)
    \/ \E t \in ThreadIds : SetCurrentThread(t)
    \/ Dispose

SpecThreads == InitObserved /\ [][NextThreads]_vars

\* one session and its adapter: `stopped` and `continued` events next to the
\* refreshes in flight, observed
NextRace ==
    \/ OnInitialized
    \/ \E a \in {"true", "false"} : OnContinued(a, 1)
    \/ \E body \in StopBodies : OnStopped(body)
    \/ \E list \in ThreadLists : ThreadsResponse(list)

SpecRace == InitObserved /\ [][NextRace]_vars

\* one session, its adapter and a breakpoint store that does not change: configure
\* over the resources of the store, each with at most one breakpoint
InitConfigure ==
    /\ InitSession
    /\ capConfigDone \in BOOLEAN
    /\ storeUris \in UriOrders
    /\ markers \in [Uris -> { m \in MarkerLists : Len(m) <= 1 }]
    /\ \A u \in Uris : (\A i \in 1..Len(storeUris) : storeUris[i] # u) => markers[u] = <<>>
    /\ InitNoDedup
    /\ InitManager

NextConfigure ==
    \/ OnInitialized
    \/ \E i \in 1..Len(syncs) : \E answer \in Answers(syncs[i].all) :
          SetBreakpointsResponse(i, answer)
    \/ \E i \in 1..Len(syncs) : SetBreakpointsFail(i)
    \/ ConfigurationDoneResponse
    \/ ConfigurationDoneFail
    \/ \E c \in BOOLEAN : OnCapabilities(ConfigDoneBody(c))
    \/ OnStopped([threadId |-> 1, preserveFocusHint |-> FALSE])
    \/ \E list \in {<<>>, <<1>>} : ThreadsResponse(list)
    \/ ThreadsFail
    \/ Dispose

SpecConfigure == InitConfigure /\ [][NextConfigure]_vars

\* one session, its adapter and the breakpoint store: resyncs of one resource
InitSync ==
    /\ InitSession
    /\ capConfigDone = FALSE
    /\ storeUris = <<"a.ts">>
    /\ markers \in [Uris -> MarkerLists]
    /\ markers["b.ts"] = <<>>
    /\ InitNoDedup
    /\ InitManager

NextSync ==
    \/ OnInitialized
    \/ \E list \in Edits(markers["a.ts"]) : StoreChange("a.ts", list)
    \/ \E i \in 1..Len(syncs) : \E answer \in Answers(syncs[i].all) :
          SetBreakpointsResponse(i, answer)
    \/ \E i \in 1..Len(syncs) : SetBreakpointsFail(i)
    \/ ThreadsResponse(<<1>>)
    \/ Dispose

SpecSync == InitSync /\ [][NextSync]_vars

\* the same, with the observer of the resyncs switched on
InitSyncObserved ==
    /\ InitSessionState
    /\ observed = Observing
    /\ capConfigDone = FALSE
    /\ storeUris = <<"a.ts">>
    /\ markers \in [Uris -> { m \in MarkerLists : Len(m) <= 1 }]
    /\ markers["b.ts"] = <<>>
    /\ InitNoDedup
    /\ InitManager

SpecResync == InitSyncObserved /\ [][NextSync]_vars

\* one session, its adapter and the breakpoint store around a disposal: configure
\* over one resource, a change of the store, a stopped thread, the debounce timer
InitDisposal ==
    /\ InitSession
    /\ capConfigDone = FALSE
    /\ storeUris = <<"a.ts">>
    /\ markers = [u \in Uris |-> IF u = "a.ts" THEN <<[id |-> 1, line |-> 1, enabled |-> TRUE]>>
                                 ELSE <<>>]
    /\ InitNoDedup
    /\ InitManager

NextDisposal ==
    \/ OnInitialized
    \/ \E list \in {<<>>, markers["a.ts"]} : StoreChange("a.ts", list)
    \/ \E i \in 1..Len(syncs) : \E answer \in Answers(syncs[i].all) :
          SetBreakpointsResponse(i, answer)
    \/ OnThreadStarted
    \/ Tick
    \/ OnStopped([threadId |-> 1, preserveFocusHint |-> FALSE])
    \/ ThreadsResponse(<<1>>)
    \/ Dispose

SpecDisposal == InitDisposal /\ [][NextDisposal]_vars

\* one session from start() on: initialize, launch or attach, capabilities events,
\* configure and the end of the session
InitStart ==
    /\ InitSession
    /\ capConfigDone = FALSE
    /\ InitNoStore
    /\ InitNoDedup
    /\ InitManager

NextStart ==
    \/ Start
    \/ \E body \in CapBodies : InitializeResponse(body)
    \/ InitializeFail
    \/ LaunchResponse
    \/ LaunchFail
    \/ MessageClosed
    \/ OnExited
    \/ \E event \in CapBodies : OnCapabilities(event)
    \/ OnInitialized
    \/ ConfigurationDoneResponse

SpecStart == InitStart /\ [][NextStart]_vars

\* one session and its adapter: configure, stopped threads, pauseAll and continueAll
NextFan ==
    \/ OnInitialized
    \/ ConfigurationDoneResponse
    \/ \E body \in StopBodies : OnStopped(body)
    \/ \E list \in ThreadLists : ThreadsResponse(list)
    \/ PauseAll
    \/ ContinueAll
    \/ \E t \in ThreadIds : FanResponse(t)
    \/ \E t \in ThreadIds : FanFail(t)
    \/ Dispose

SpecFan == Init /\ [][NextFan]_vars

\* dedupBreakpoints applied to every small list of breakpoints
InitDedup ==
    /\ InitSession
    /\ capConfigDone = FALSE
    /\ InitNoStore
    /\ dAll \in DedupInputs
    /\ dPerm = <<>>
    /\ dOut = <<>>
    /\ dOutPerm = <<>>
    /\ dPc = "input"
    /\ InitManager

NextDedup == \E p \in Orderings(Len(dAll)) : DedupCall(p)

SpecDedup == InitDedup /\ [][NextDedup]_vars

\* the manager numbering the configurations it starts
InitMgr ==
    /\ InitSession
    /\ capConfigDone = FALSE
    /\ InitNoStore
    /\ InitNoDedup
    /\ InitManager

NextMgr ==
    \/ \E n \in Names : MgrStart(n)
    \/ \E r \in resolving : MgrResolved(r)
    \/ \E r \in resolving : MgrCreated(r)
    \/ \E c \in DOMAIN mgrSessions : MgrRestart(c)
    \/ \E c \in DOMAIN mgrSessions : MgrDestroy(c)

SpecMgr == InitMgr /\ [][NextMgr]_vars

\* one session whose threads stop and continue
NextContinued ==
    \/ OnInitialized
    \/ \E a \in {"true", "false", "absent"}, t \in ThreadIds : OnContinued(a, t)
    \/ \E body \in StopBodies : OnStopped(body)
    \/ \E list \in ThreadLists : ThreadsResponse(list)
    \/ \E t \in ThreadIds : SetCurrentThread(t)
    \/ Dispose

SpecContinued == InitMgr /\ [][NextContinued]_vars

\* the manager with several sessions: start, change events, destroy
InitMulti ==
    /\ InitSession
    /\ capConfigDone = FALSE
    /\ InitNoStore
    /\ InitNoDedup
    /\ InitManager

NextMulti ==
    \/ \E n \in Names : StartSession(n)
    \/ \E i \in 1..Len(creating) : SessionCreated(i)
    \/ \E id \in SessionIds : SessionInitialized(id)
    \/ \E id \in SessionIds : SessionChanged(id)
    \/ \E id \in SessionIds : Destroy(id)
    \/ DestroyAll

SpecMulti == InitMulti /\ [][NextMulti]_vars

\* the manager with several sessions that have breakpoints: the current session is
\* assigned
NextCurrent ==
    \/ StartSession("X")
    \/ \E i \in 1..Len(creating) : SessionCreated(i)
    \/ \E id \in SessionIds, uris \in UriLists : SessionBreakpoints(id, uris)
    \/ \E id \in SessionIds \cup {NoSession} : AssignCurrentSession(id)

SpecCurrent == InitMulti /\ [][NextCurrent]_vars

\* the manager restarting its sessions
NextRestart ==
    \/ \E n \in Names : created + Len(creating) < MaxRestartable /\ StartSession(n)
    \/ \E i \in 1..Len(creating) : SessionCreated(i)
    \/ \E id \in SessionIds, value \in BOOLEAN : SessionCapabilities(id, value)
    \/ \E id \in SessionIds : SessionChanged(id)
    \/ \E id \in SessionIds : SessionExited(id)
    \/ \E arg \in SessionIds \cup {NoSession} : Restart(arg)
    \/ \E id \in SessionIds : OnTerminated(id)
    \/ \E id \in SessionIds : RestartResponse(id)
    \/ \E id \in SessionIds : RestartFail(id)
    \/ \E id \in SessionIds : DisconnectResponse(id)

SpecRestart == InitMulti /\ [][NextRestart]_vars

C10_StoppedEventFrame ==
    [][ (/\ refreshed' # refreshed
         /\ pendingThreads[1].stoppedDetails # NoDetails
         /\ HasThread(threads', pendingThreads[1].stoppedDetails.threadId))
        => LET details == pendingThreads[1].stoppedDetails
           IN /\ GetThread(threads', details.threadId).stoppedDetails = details
              /\ \A i \in 1..Len(threads) :
                    (threads[i].id # details.threadId /\ HasThread(threads', threads[i].id))
                    => GetThread(threads', threads[i].id).stoppedDetails
                       = threads[i].stoppedDetails ]_vars

\* ----------------------------------------------------------------- C3
\* the positions of the input breakpoints that are on a line
OnLine(all, line) == {k \in 1..Len(all) : Line(all[k]) = line}

\* how often an origin occurs in the origins lists of the entries of out
Occurrences(out, origin) ==
    Cardinality({ij \in (1..Len(out)) \X (1..MaxDedup) :
                    ij[2] <= Len(out[ij[1]].origins) /\ out[ij[1]].origins[ij[2]] = origin})

\* dedupBreakpoints answers with one breakpoint per line of the input, and the
\* origins of the entry of a line are the origins of the input breakpoints on it
OnePerLine(all, out) ==
    /\ {Line(out[i]) : i \in 1..Len(out)} = {Line(all[k]) : k \in 1..Len(all)}
    /\ \A i, j \in 1..Len(out) : Line(out[i]) = Line(out[j]) => i = j
    /\ \A i \in 1..Len(out) :
          /\ Len(out[i].origins) = Cardinality(OnLine(all, Line(out[i])))
          /\ \A k \in OnLine(all, Line(out[i])) :
                \E n \in 1..Len(out[i].origins) : out[i].origins[n] = Origin(all[k])
    /\ \A k \in 1..Len(all) : Occurrences(out, Origin(all[k])) = 1

\* C3: for every input list of breakpoints of one resource, dedupBreakpoints
\* returns exactly one breakpoint per distinct line of the input, and the origins
\* of the entry of a line hold every origin of the input breakpoints on that
\* line, each exactly once.
C3_OnePerLineAllOrigins ==
    dPc = "done" => OnePerLine(dAll, dOut) /\ OnePerLine(dPerm, dOutPerm)

\* three breakpoints collapse into one entry whose primary is not the first of them
C3_Witness ==
    /\ dPc = "done"
    /\ Len(dAll) = 3
    /\ Len(dOut) = 1
    /\ Len(dOut[1].origins) = 3
    /\ Origin(dOut[1]) # Origin(dAll[1])

\* ----------------------------------------------------------------- C4
\* C4: for two orderings of the same breakpoints of one resource, the breakpoint
\* dedupBreakpoints chooses as primary of each line is the same.
C4_PrimaryIndependentOfOrder ==
    dPc = "done" =>
        \A i \in 1..Len(dOut) :
            \E j \in 1..Len(dOutPerm) :
                Line(dOutPerm[j]) = Line(dOut[i]) /\ Origin(dOutPerm[j]) = Origin(dOut[i])

\* ----------------------------------------------------------------- C5
\* the entry of a line has the only unshifted breakpoint of that line as primary,
\* when several breakpoints are on the line and exactly one of them is unshifted
UnshiftedIsPrimary(all, out) ==
    \A k \in 1..Len(all) :
        (/\ Unshifted(all[k])
         /\ Cardinality(OnLine(all, Line(all[k]))) >= 2
         /\ \A m \in OnLine(all, Line(all[k])) : Unshifted(all[m]) => m = k)
        => \E i \in 1..Len(out) :
              Line(out[i]) = Line(all[k]) /\ Origin(out[i]) = Origin(all[k])

\* C5: when several breakpoints collapse to one line and exactly one of them has
\* an adapter line equal to its declared line, that breakpoint is the primary of
\* the line, whatever its position in the input.
C5_UnshiftedIsPrimary ==
    dPc = "done" => UnshiftedIsPrimary(dAll, dOut) /\ UnshiftedIsPrimary(dPerm, dOutPerm)

\* the only unshifted breakpoint of a line comes after a shifted one of that line
\* and is the primary
C5_Witness ==
    /\ dPc = "done"
    /\ \E k \in 2..Len(dAll) :
          /\ Unshifted(dAll[k])
          /\ \A m \in OnLine(dAll, Line(dAll[k])) : Unshifted(dAll[m]) => m = k
          /\ \E m \in 1..(k - 1) : Line(dAll[m]) = Line(dAll[k]) /\ dAll[m].hasRaw
          /\ \E i \in 1..Len(dOut) : Origin(dOut[i]) = Origin(dAll[k])

\* ----------------------------------------------------------------- C6
\* C6: a resync of a resource sends setBreakpoints and emits exactly one
\* breakpoint-changed notification for the resource, and when it follows a resync
\* of the same declared breakpoints with the same adapter answer, the reconciled
\* set stored is the one that was stored (same lines, primaries and origins).
C6_ResyncIdempotent ==
    [][ \A u \in Uris :
          lastSync'[u].gen # lastSync[u].gen =>
            /\ bpFired'[u] = bpFired[u] + 1
            /\ lastSync'[u].fired = 1
            /\ setBpSent[u] >= bpFired'[u]
            /\ \E i \in 1..Len(syncs) : syncs[i].uri = u /\ syncs[i].all = lastSync'[u].all
            /\ Len(syncs') < Len(syncs) \/ cfgPc' = "bp"
            /\ sessionBps'[u] = [has |-> TRUE, list |-> lastSync'[u].result]
            /\ lastSync'[u].repeat =>
                  /\ sessionBps[u].has
                  /\ sessionBps'[u].list = sessionBps[u].list ]_vars

\* a second resync of the same two declared breakpoints with the same answer has
\* completed; the two collapsed into one entry
C6_Witness ==
    /\ lastSync["a.ts"].repeat
    /\ Len(lastSync["a.ts"].all) = 2
    /\ Len(sessionBps["a.ts"].list) = 1
    /\ Len(sessionBps["a.ts"].list[1].origins) = 2
    /\ setBpSent["a.ts"] = 2
    /\ bpFired["a.ts"] = 2

\* ----------------------------------------------------------------- C7
\* refreshes of the debounce that wait in the chain behind the one in flight
QueuedRefreshes(origin) ==
    Cardinality({i \in 2..Len(pendingThreads) : pendingThreads[i].origin = origin})

\* C7: every burst of thread-started events, each less than the debounce window
\* after the one before, causes exactly one refresh: its `threads` request is sent
\* (or waits in the chain behind the refresh in flight, or was refused by a
\* connection closed meanwhile), and the timer runs out only a full window after
\* the last event of the burst.
C7_OneRequestPerBurst ==
    /\ threadsSent["debounce"] + threadsRejected["debounce"] + QueuedRefreshes("debounce")
       + (IF timer > 0 THEN 1 ELSE 0) = bursts
    /\ ~disposed => threadsRejected["debounce"] = 0
    /\ lastFireGap \in {-1, DebounceMs}
    /\ timer > 0 => timer + sinceStarted = DebounceMs

\* a burst of several events is over and has sent its one request
C7_Witness ==
    /\ ~disposed
    /\ bursts = 1
    /\ burstEvents >= 2
    /\ timer = 0
    /\ lastFireGap = DebounceMs
    /\ threadsSent["debounce"] = 1

\* ----------------------------------------------------------------- C2
\* the resources of the store
StoreUriSet == {storeUris[i] : i \in 1..Len(storeUris)}

\* C2: the state is Inactive iff the connection is disposed, Initializing iff the
\* connection is open and configure has not completed, and Running or Stopped only
\* when the connection is open and configure has completed: setBreakpoints
\* answered for every resource, then configurationDone answered when it was sent.
C2_StateByLifecycle ==
    /\ State = "Inactive" <=> disposed
    /\ State = "Initializing" <=> (~disposed /\ cfgPc # "done")
    /\ State \in {"Running", "Stopped"} =>
          /\ ~disposed
          /\ cfgPc = "done"
          /\ cfgSent = storeUris
          /\ cfgAcked = StoreUriSet
          /\ confDone \in {"no", "acked"}
          /\ confDone = "no" => capAtDecision = "no"

\* a session is Stopped after a configure over two resources and configurationDone
C2_Witness ==
    /\ State = "Stopped"
    /\ Len(storeUris) = 2
    /\ confDone = "acked"

\* ----------------------------------------------------------------- C9
\* refreshes of configure: requests sent, refused, or waiting in the chain
ConfigureRefreshes ==
    threadsSent["configure"] + threadsRejected["configure"] + QueuedRefreshes("configure")

\* C9: after `initialized` the session sends setBreakpoints for the resources of
\* the store one after the other, then configurationDone iff the capability is
\* true when it is read, then exactly one thread refresh, in both cases, and not
\* before every setBreakpoints (and configurationDone, when sent) is answered.
C9_ConfigureSequence ==
    /\ \E n \in 0..Len(storeUris) : cfgSent = SubSeq(storeUris, 1, n)
    /\ cfgAcked \subseteq {cfgSent[i] : i \in 1..Len(cfgSent)}
    /\ Cardinality(cfgAcked) >= Len(cfgSent) - 1
    /\ \A u \in Uris : setBpSent[u] = (IF \E i \in 1..Len(cfgSent) : cfgSent[i] = u THEN 1 ELSE 0)
    /\ confDone # "no" => capAtDecision = "yes"
    /\ capAtDecision # "unread" => (cfgSent = storeUris /\ cfgAcked = StoreUriSet)
    /\ capAtDecision = "yes" => confDone # "no"
    /\ ConfigureRefreshes = (IF cfgPc = "done" THEN 1 ELSE 0)
    /\ cfgPc = "done" =>
          /\ capAtDecision # "unread"
          /\ capAtDecision = "yes" => confDone = "acked"
    /\ ~disposed => threadsRejected["configure"] = 0

\* configure over two resources without configurationDone has sent its refresh
C9_Witness ==
    /\ cfgPc = "done"
    /\ Len(storeUris) = 2
    /\ confDone = "no"
    /\ capAtDecision = "no"
    /\ setBpSent = [u \in Uris |-> 1]
    /\ threadsSent["configure"] = 1

\* ----------------------------------------------------------------- C8
\* C8, as stated: per name, the start called k-th gets the disambiguator k - 1, and
\* every start gets a number greater than all numbers given to the name before.
C8_NumbersInCallOrder ==
    /\ \A r \in resolving : r.stage = "create" => r.number = r.call - 1
    /\ \A n \in Names : \A j, k \in 1..Len(received[n]) :
          j < k => received[n][j].number < received[n][k].number

\* the starts among the first k of a name that came with an unresolved configuration
FreshUpTo(name, k) == Cardinality({j \in 1..k : received[name][j].fresh})

\* C8, amended: per name, the starts made with a configuration that is not yet
\* resolved get 0, 1, 2, ... in the order in which their resolution completes,
\* each greater than all numbers given to the name before; a start made with a
\* resolved configuration (doRestart) keeps the number the configuration has;
\* destroying sessions never makes a number available again.
C8_FreshStartsNumbered ==
    \A n \in Names :
        /\ configurationIds[n] = FreshUpTo(n, Len(received[n])) - 1
        /\ \A k \in 1..Len(received[n]) :
              IF received[n][k].fresh
              THEN /\ received[n][k].number = FreshUpTo(n, k) - 1
                   /\ \A j \in 1..(k - 1) : received[n][j].number < received[n][k].number
              ELSE \E j \in 1..(k - 1) :
                      received[n][j].fresh /\ received[n][j].number = received[n][k].number

\* the fourth start of a name, made after a session of the name was destroyed, gets 3
C8_Witness ==
    \E n \in Names : \E k \in 1..Len(received[n]) :
        /\ received[n][k].fresh
        /\ received[n][k].afterDestroy
        /\ received[n][k].number = 3

\* ---------------------------------------------------------------- C11
\* C11: when the refresh of a `stopped` event naming thread t (any id, 0 included)
\* is applied and t is in the refreshed list, t is the current thread unless the
\* event sets preserveFocusHint; with preserveFocusHint the thread that was
\* current stays current when it is still in the list.
C11_StoppedThreadBecomesCurrent ==
    [][ (/\ refreshed' # refreshed
         /\ pendingThreads[1].stoppedDetails # NoDetails
         /\ HasThread(threads', pendingThreads[1].stoppedDetails.threadId))
        => LET details == pendingThreads[1].stoppedDetails
           IN IF ~details.preserveFocusHint
              THEN currentThread' = details.threadId
              ELSE HasThread(threads', currentThread) => currentThread' = currentThread ]_vars

\* ---------------------------------------------------------------- C14
\* C14: a `continued` event whose allThreadsContinued is not false (true or
\* absent) clears the stopped state of every thread of the map; one whose
\* allThreadsContinued is false clears the thread named by threadId only, and
\* every other thread keeps its stopped flag and stop details.
C14_ContinuedClears ==
    [][ continued'.seq # continued.seq =>
          /\ Len(threads') = Len(threads)
          /\ \A i \in 1..Len(threads) :
                /\ threads'[i].id = threads[i].id
                /\ IF continued'.allThreadsContinued # "false"
                      \/ threads[i].id = continued'.threadId
                   THEN ~Stopped(threads'[i])
                   ELSE threads'[i].stoppedDetails = threads[i].stoppedDetails ]_vars

\* after a `continued` event for one thread only, another thread is still stopped
C14_Witness ==
    /\ continued.allThreadsContinued = "false"
    /\ HasThread(threads, continued.threadId)
    /\ ~Stopped(GetThread(threads, continued.threadId))
    /\ \E i \in 1..Len(threads) :
          threads[i].id # continued.threadId /\ Stopped(threads[i])
    /\ pendingThreads = <<>>

\* ---------------------------------------------------------------- C15
\* C15: after a `capabilities` event every capability field the event names has
\* the event's value, and every stored field the event does not name keeps the
\* value it had.
C15_CapabilitiesMerged ==
    [][ capEvent'.seq # capEvent.seq =>
          LET event == capEvent'.event
          IN /\ DOMAIN capabilities' = (DOMAIN capabilities) \cup (DOMAIN OtherFields(event))
             /\ \A f \in DOMAIN capabilities' :
                   capabilities'[f] = (IF f \in DOMAIN event THEN event[f] ELSE capabilities[f])
             /\ capConfigDone' = (IF ConfigDoneField \in DOMAIN event
                                  THEN event[ConfigDoneField] ELSE capConfigDone) ]_vars

\* an event that names supportsRestartRequest only has been merged into
\* capabilities that hold the two other fields as true
C15_Witness ==
    /\ capEvent.seq
    /\ DOMAIN capEvent.event = {"supportsRestartRequest"}
    /\ ~capEvent.event["supportsRestartRequest"]
    /\ capConfigDone
    /\ DOMAIN capabilities = CapFields \ {ConfigDoneField}
    /\ capabilities["supportsDelayedStackTraceLoading"]
    /\ ~capabilities["supportsRestartRequest"]

\* ---------------------------------------------------------------- C16
\* C16: when the launch or attach request is rejected, the session fires a local
\* `exited` event exactly once, start() rejects with that failure after the
\* message, no second launch or attach request is sent, and the session is
\* destroyed (disposed) and no longer in the manager's session set.
C16_LaunchFailure ==
    /\ launchSent <= 1
    /\ exitedFired = (IF startFailure = "launch" THEN 1 ELSE 0)
    /\ messages = exitedFired
    /\ startFailure = "launch" =>
          /\ launchSent = 1
          /\ startPc \in {"message", "rejected"}
          /\ disposed
          /\ ~registered
    /\ startPc = "message" => startFailure = "launch"
    /\ startPc = "rejected" <=> (startFailure = "initialize"
                                  \/ (startFailure = "launch" /\ startPc # "message"))

\* start() has rejected after a rejected launch on a session that was configured
C16_Witness ==
    /\ startPc = "rejected"
    /\ startFailure = "launch"
    /\ exitedFired = 1
    /\ initialized
    /\ ~registered

\* ---------------------------------------------------------------- C17
\* C17: when the initialize request is rejected, the session fires a local
\* `exited` event and shows the failure, as for a rejected launch or attach, and
\* does not stay registered in the Initializing state.
C17_InitializeFailure ==
    startFailure = "initialize" =>
        /\ exitedFired = 1
        /\ messages = 1
        /\ ~(registered /\ State = "Initializing")

\* ---------------------------------------------------------------- C18
\* C18: pauseAll sends one pause request for each thread that is running when it
\* is called and continueAll one continue request for each thread that is stopped
\* then; the call completes only when all of those requests have settled, it
\* never rejects, and a failed request keeps no sibling request from being sent.
C18_FanOut ==
    /\ fanSent = [t \in ThreadIds |-> IF t \in fanTargets THEN 1 ELSE 0]
    /\ fanPending \cup fanFailed \subseteq fanTargets
    /\ fanPending \cap fanFailed = {}
    /\ fanResult # "rejected"
    /\ fanResult = "pending" <=> fanPending # {}
    /\ fanResult = "none" <=> fanKind = "none"

\* a pauseAll over two threads has completed although one of its requests failed
C18_Witness ==
    /\ fanKind = "pause"
    /\ fanTargets = ThreadIds
    /\ Cardinality(fanFailed) = 1
    /\ fanResult = "resolved"
    /\ ~disposed

\* ---------------------------------------------------------------- C12
\* the non-Inactive sessions other than the destroyed one, as the last destroy found them
OthersBefore == {lastOp.sessions[i] : i \in 1..Len(lastOp.sessions)} \ {lastOp.id}

\* C12: destroy(id) of the session that is current, while two other sessions are
\* not Inactive, leaves one of those two current and fires exactly one
\* active-session-changed event
C12_DestroyCurrentPromotes ==
    (/\ lastOp.kind = "destroy"
     /\ lastOp.current = lastOp.id
     /\ Cardinality(OthersBefore) = 2)
    => /\ lastOp.after \in OthersBefore
       /\ lastOp.events = 1

C12_Witness ==
    /\ lastOp.kind = "destroy"
    /\ lastOp.current = lastOp.id
    /\ Cardinality(OthersBefore) = 2
    /\ lastOp.after = lastOp.sessions[2]
    /\ lastOp.id = lastOp.sessions[1]
    /\ currentSession = lastOp.after

\* ---------------------------------------------------------------- C13
\* C13: whenever a session of _sessions is not Inactive, currentSession is defined,
\* also right after start has created the first session
C13_CurrentWhenAnyActive ==
    Len(Sessions(Manager)) > 0 => currentSession # NoSession

\* ---------------------------------------------------------------- C20
\* the steps of one destruction in the order of the claim, each with what it finds:
\* the adapter is stopped and the session disposed while it is registered, it is
\* removed once disposed, and the destroyed event fires once it is removed
DestroySteps(id) ==
    << [step |-> "stop", id |-> id, registered |-> TRUE, disposed |-> FALSE],
       [step |-> "dispose", id |-> id, registered |-> TRUE, disposed |-> FALSE],
       [step |-> "remove", id |-> id, registered |-> TRUE, disposed |-> TRUE],
       [step |-> "destroyed", id |-> id, registered |-> FALSE, disposed |-> TRUE] >>

RECURSIVE StepsOfAll(_, _)
StepsOfAll(ids, i) ==
    IF i > Len(ids) THEN <<>> ELSE DestroySteps(ids[i]) \o StepsOfAll(ids, i + 1)

\* C20: destroy(id) stops the adapter, disposes the session, removes it and then
\* fires the destroyed event, and the other sessions stay; destroy() does so for
\* every registered session and leaves no session and no current session
C20_DestroyOrder ==
    /\ lastOp.kind = "destroy" =>
           /\ lastOp.log = DestroySteps(lastOp.id)
           /\ LET Others(i) == i # lastOp.id
              IN lastOp.left = SelectSeq(lastOp.all, Others)
    /\ lastOp.kind = "destroyAll" =>
           /\ lastOp.log = StepsOfAll(lastOp.all, 1)
           /\ lastOp.left = <<>>
           /\ lastOp.after = NoSession

C20_Witness ==
    /\ lastOp.kind = "destroyAll"
    /\ Len(lastOp.all) = 3
    /\ lastOp.current = lastOp.all[2]
    /\ allSessions = <<>>
    /\ currentSession = NoSession

\* ---------------------------------------------------------------- C19
\* the sessions a restart of session id has started, and its starts awaiting their id
StartedBy(id) == {j \in 1..created : debugSessions[j].restartOf = id}
WaitingFor(id) == {k \in 1..Len(creating) : creating[k].restartOf = id}

\* what holds of the restart of every session at every moment
RestartState ==
    /\ restartResult[NoSession] \in {NoSession, Undefined}
    /\ \A id \in SessionIds :
          LET r == requests[id]
          IN /\ r.by = "none" => r.restart = 0 /\ r.disconnect = 0
             /\ r.by # "none" => r.restart + r.disconnect = 1
             /\ r.restart = 1 =>
                    /\ StartedBy(id) = {} /\ WaitingFor(id) = {}
                    /\ restartResult[id] = (IF restartPc[id] = "done" THEN id ELSE NoSession)
             /\ r.disconnect = 1 =>
                    /\ StartedBy(id) \cup WaitingFor(id) # {} => r.answered
                    /\ Cardinality(StartedBy(id)) + Cardinality(WaitingFor(id)) <= 1
                    /\ \A k \in WaitingFor(id) :
                          creating[k].configuration = debugSessions[id].configuration
                    /\ \A j \in StartedBy(id) :
                          /\ debugSessions[j].configuration = debugSessions[id].configuration
                          /\ restartResult[id] = j
                    /\ StartedBy(id) = {} => restartResult[id] = NoSession

\* what a call of restart does before its first await
RestartStep ==
    /\ restartResult'[NoSession] # restartResult[NoSession] =>
           /\ currentSession = NoSession
           /\ restartResult'[NoSession] = Undefined
           /\ UNCHANGED <<requests, creating, restartPc, allSessions, created>>
    /\ \A id \in SessionIds :
          requests[id].by = "none" /\ requests'[id].by = "restart" =>
              /\ IF debugSessions[id].supportsRestartRequest
                 THEN requests'[id].restart = 1 /\ requests'[id].disconnect = 0
                 ELSE requests'[id].restart = 0 /\ requests'[id].disconnect = 1
              /\ UNCHANGED <<creating, allSessions, created>>

\* C19: restart() without a current session returns undefined and sends nothing; for a
\* session with supportsRestartRequest it sends one `restart` request and, once that
\* is answered, returns the session; for any other session it sends one `disconnect`
\* and starts one session with the same configuration only when that is answered
C19_Restart == []RestartState /\ [][RestartStep]_vars

C19_Witness ==
    /\ restartResult[NoSession] = Undefined
    /\ \E id \in SessionIds, j \in SessionIds :
          /\ requests[id] = [restart |-> 0, disconnect |-> 1, answered |-> TRUE,
                              by |-> "restart"]
          /\ restartPc[id] = "done"
          /\ restartResult[id] = j
          /\ j # id
          /\ InSessions(Manager, j)
          /\ debugSessions[j].configuration = "Y"

\* ---------------------------------------------------------------- C22
\* the refreshes of a chain, whether sent or not
Calls(q) == [i \in 1..Len(q) |-> [q[i] EXCEPT !.sent = FALSE]]

\* the chain is a queue: a call is added at its end, the refresh in flight leaves
\* it at its head, a disposal empties it
ChainStep ==
    \/ Calls(pendingThreads') = Calls(pendingThreads)
    \/ /\ Len(pendingThreads') = Len(pendingThreads) + 1
       /\ SubSeq(Calls(pendingThreads'), 1, Len(pendingThreads)) = Calls(pendingThreads)
    \/ /\ pendingThreads # <<>>
       /\ pendingThreads[1].sent
       /\ Calls(pendingThreads') = Tail(Calls(pendingThreads))
    \/ disposed' /\ pendingThreads' = <<>>

\* C22: the `threads` request of the oldest refresh of the chain is the only one
\* outstanding; a later refresh sends its request when every refresh called
\* before it has been applied or has failed.
C22_Serialized ==
    /\ [](\A i \in 1..Len(pendingThreads) : pendingThreads[i].sent <=> i = 1)
    /\ [][ChainStep]_vars

\* a debounced refresh waits behind the refresh of a `stopped` event, after an
\* earlier refresh has been applied
C22_Witness ==
    /\ Len(pendingThreads) = 2
    /\ pendingThreads[1].origin = "stopped"
    /\ pendingThreads[2].origin = "debounce"
    /\ ~pendingThreads[2].sent
    /\ Len(threads) > 0


\* ------------------------------------------------------------------ C23
\* the refresh in flight settles without being applied, on a live session
RefreshFails ==
    /\ pendingThreads # <<>>
    /\ Calls(pendingThreads') = Tail(Calls(pendingThreads))
    /\ refreshed' = refreshed
    /\ ~disposed'

\* C23: a failed `threads` request leaves the thread map, every stopped flag and
\* the current thread as they were, the refresh leaves the chain, and the
\* refresh queued behind it sends its request.
C23_FailedRefreshKeepsThreads ==
    [][RefreshFails =>
        /\ threads' = threads
        /\ currentThread' = currentThread
        /\ observed'.what = "threads failed"
        /\ Len(pendingThreads) > 1 =>
              /\ pendingThreads'[1].sent
              /\ threadsSent' = Bump(threadsSent, pendingThreads[2].origin)]_vars

\* a refresh has failed with another one queued behind it, which is now in
\* flight, and the stopped thread of the last good refresh is still there
C23_Witness ==
    /\ observed.what = "threads failed"
    /\ observed.arg = 1
    /\ Len(pendingThreads) = 1
    /\ pendingThreads[1].sent
    /\ currentThread # NoThread
    /\ \E i \in 1..Len(threads) : Stopped(threads[i])


\* ------------------------------------------------------------------ C27
\* the handler of a `thread` event with reason `exited` has run
ThreadExitedStep ==
    /\ Recorded' # Recorded
    /\ observed'.what \in {"thread exited", "stopped thread exited"}

\* C27: a `thread` event with reason `exited` sends and schedules no request,
\* keeps the threads of the map, clears the stop details of the named thread and
\* leaves every other thread as it was.
C27_ThreadExitedClearsOne ==
    [][ThreadExitedStep =>
        /\ pendingThreads' = pendingThreads
        /\ UNCHANGED <<countVars, timerVars>>
        /\ Len(threads') = Len(threads)
        /\ \A i \in 1..Len(threads) :
              /\ threads'[i].id = threads[i].id
              /\ threads[i].id = observed'.arg => ~Stopped(threads'[i])
              /\ threads[i].id # observed'.arg => threads'[i] = threads[i]]_vars

\* the stopped thread 1 has exited: it is still in the map, next to thread 0, and
\* is not stopped any more
C27_Witness ==
    /\ observed.what = "stopped thread exited"
    /\ observed.arg = 1
    /\ Len(threads) = 2
    /\ HasThread(threads, 1)
    /\ ~Stopped(GetThread(threads, 1))
    /\ pendingThreads = <<>>


\* ------------------------------------------------------------------ C29
\* C29: the current thread is undefined exactly when the thread map is empty,
\* and is a thread of the map otherwise.
C29_CurrentThreadInMap ==
    /\ currentThread = NoThread <=> Len(threads) = 0
    /\ currentThread # NoThread => HasThread(threads, currentThread)

\* an applied refresh has left two threads in the map, and the current thread is
\* the second of them, stopped
C29_Witness ==
    /\ Len(threads) = 2
    /\ currentThread = threads[2].id
    /\ Stopped(threads[2])
    /\ pendingThreads = <<>>


\* ------------------------------------------------------------------ C30
\* C30: when the last `stopped` or `continued` event handled is a `continued` for
\* all threads and every pending refresh has completed, no thread is marked
\* stopped and the session is Running.
C30_ContinuedAfterStoppedRuns ==
    (/\ observed.event = "continued all"
     /\ pendingThreads = <<>>
     /\ initialized
     /\ ~disposed)
        => /\ \A i \in 1..Len(threads) : ~Stopped(threads[i])
           /\ State = "Running"


\* ------------------------------------------------------------------ C28
\* C28: once the session is disposed it attempts no `threads` request: none is
\* sent and none is refused by the closed connection.
C28_NoRefreshAfterDispose ==
    [][disposed => UNCHANGED countVars]_vars


\* ------------------------------------------------------------------ C24
\* C24: every setBreakpoints request carries only enabled breakpoints and at most
\* one breakpoint per line, and the set stored for a resource holds one breakpoint
\* per line, with every declared breakpoint of the resync, enabled or disabled,
\* among the origins.
C24_SendsEnabledDeduplicated ==
    /\ \A i \in 1..Len(syncs) :
          LET sent == RequestBreakpoints(syncs[i].all)
          IN /\ \A j \in 1..Len(sent) : sent[j].enabled
             /\ \A j, k \in 1..Len(sent) : j # k => sent[j].line # sent[k].line
    /\ \A u \in Uris :
          lastSync[u].gen # 0 /\ sessionBps[u].has =>
              OnePerLine(ApplyAnswer(lastSync[u].all, lastSync[u].answer), sessionBps[u].list)


\* ------------------------------------------------------------------ C25
\* the response to a setBreakpoints request of the resource is applied: the
\* complete new set is stored and one notification follows
ResponseStored(uri) ==
    /\ lastSync'[uri].gen # lastSync[uri].gen
    /\ sessionBps'[uri] = [has |-> TRUE, list |-> lastSync'[uri].result]
    /\ bpFired'[uri] = bpFired[uri] + 1

\* the disposal clears the stored set of the resource and notifies when there
\* was one
DisposeCleared(uri) ==
    /\ ~disposed /\ disposed'
    /\ sessionBps'[uri] = [has |-> FALSE, list |-> <<>>]
    /\ bpFired'[uri] = bpFired[uri] + (IF sessionBps[uri].has THEN 1 ELSE 0)

\* a setBreakpoints request of the resource has failed
RequestFailed(uri) ==
    /\ Recorded' # Recorded
    /\ observed'.what = "setBreakpoints failed"
    /\ observed'.arg = UriIndex(uri)

\* C25 as stated: the stored set of a resource changes, and a notification is
\* fired for it, only when a setBreakpoints response for it is applied; a failed
\* request changes nothing and notifies nobody.
C25_StoredOnlyByResponse ==
    [][\A u \in Uris :
          /\ (sessionBps'[u] # sessionBps[u] \/ bpFired'[u] # bpFired[u]) => ResponseStored(u)
          /\ RequestFailed(u) => sessionBps'[u] = sessionBps[u] /\ bpFired'[u] = bpFired[u]]_vars

\* C25, amended: the same, except that the disposal of the session clears the
\* stored set of every resource, with one notification for each that had one.
C25_StoredByResponseOrDispose ==
    [][\A u \in Uris :
          /\ (sessionBps'[u] # sessionBps[u] \/ bpFired'[u] # bpFired[u])
                => ResponseStored(u) \/ DisposeCleared(u)
          /\ RequestFailed(u) => sessionBps'[u] = sessionBps[u] /\ bpFired'[u] = bpFired[u]]_vars

\* one of two resyncs of a.ts has failed: the set the other one stored is there,
\* and one notification has been fired for two requests
C25_Witness ==
    /\ observed.what = "setBreakpoints failed"
    /\ observed.arg = UriIndex("a.ts")
    /\ sessionBps["a.ts"].has
    /\ Len(sessionBps["a.ts"].list) > 0
    /\ setBpSent["a.ts"] = 2
    /\ bpFired["a.ts"] = 1
    /\ syncs = <<>>


\* ------------------------------------------------------------------ C26
\* C26: a destroy of a session, while another session is the current one, leaves
\* currentSession as it was and fires no active-session-changed event.
C26_DestroyOtherKeepsCurrent ==
    (lastOp.kind = "destroy" /\ lastOp.current # NoSession /\ lastOp.id # lastOp.current)
        => lastOp.after = lastOp.current /\ lastOp.events = 0


\* ------------------------------------------------------------------ C21
\* the notifications of the last call that are about a resource
FiredFor(uri) ==
    { i \in 1..Len(lastOp.fired) :
        lastOp.fired[i].event = "breakpoints" /\ lastOp.fired[i].uri = uri }

\* C21: an assignment of another session, or of undefined, to currentSession
\* fires one active-session-changed event with the previous and the new session
\* and, for every resource of the breakpoints of the previous or of the new
\* session, one breakpoint-changed notification that carries the new session;
\* an assignment of the current session fires nothing.
C21_CurrentSessionEvents ==
    lastOp.kind = "set" =>
        IF lastOp.id = lastOp.current
        THEN lastOp.fired = <<>> /\ lastOp.after = lastOp.current
        ELSE /\ lastOp.after = lastOp.id
             /\ lastOp.events = 1
             /\ { i \in 1..Len(lastOp.fired) : lastOp.fired[i].event = "active" } = {1}
             /\ lastOp.fired[1] = ActiveChanged(lastOp.current, lastOp.id)
             /\ \A u \in Uris :
                   /\ Cardinality(FiredFor(u)) = (IF u \in lastOp.touched THEN 1 ELSE 0)
                   /\ \A i \in FiredFor(u) : lastOp.fired[i].session = lastOp.id

\* session 2 has been made current in the place of session 1; both have
\* breakpoints in a.ts and session 2 also in b.ts
C21_Witness ==
    /\ lastOp.kind = "set"
    /\ lastOp.current = 1
    /\ lastOp.id = 2
    /\ currentSession = 2
    /\ lastOp.touched = {"a.ts", "b.ts"}
    /\ Len(lastOp.fired) = 3
    /\ debugSessions[1].breakpointUris = <<"a.ts">>
    /\ debugSessions[2].breakpointUris = <<"a.ts", "b.ts">>


\* ------------------------------------------------------------------ C31
\* C31: when a refresh without stop details (of the debounce or of configure) is
\* applied, every thread that is in the map before and after keeps its stop
\* details, and a session that was Stopped, and has the same threads after the
\* refresh, is still Stopped.
C31_PlainRefreshKeepsStops ==
    [][ (/\ refreshed' # refreshed
         /\ pendingThreads[1].stoppedDetails = NoDetails)
        => /\ \A i \in 1..Len(threads) :
                 HasThread(threads', threads[i].id)
                 => GetThread(threads', threads[i].id).stoppedDetails
                    = threads[i].stoppedDetails
           /\ (/\ State = "Stopped"
                /\ [i \in 1..Len(threads') |-> threads'[i].id]
                   = [i \in 1..Len(threads) |-> threads[i].id])
                 => State' = "Stopped" ]_vars


\* ------------------------------------------------------------------ C32
\* C32: when two or more resyncs of a resource have been answered, none failed and
\* none is outstanding, the set stored for the resource is the one computed from
\* the breakpoints the resync started last has read, which are those of the store.
C32_LaterResyncWins ==
    \A u \in Uris :
        (/\ ~disposed
         /\ syncs = <<>>
         /\ setBpSent[u] >= 2
         /\ bpFired[u] = setBpSent[u])
        => /\ lastSync[u].all = Sync("listener", u, markers[u]).all
           /\ sessionBps[u] = [has |-> TRUE, list |-> lastSync[u].result]


\* ------------------------------------------------------------------ C35
\* C35: once a setBreakpoints request of configure or the configurationDone request
\* has failed, configure has stopped: it asks for no further resource, it issues no
\* thread refresh, and the session is Initializing until it is disposed.
C35_FailedConfigureStops ==
    [][ cfgPc' = "failed"
        => /\ ~initialized'
           /\ State' = (IF disposed' THEN "Inactive" ELSE "Initializing")
           /\ ConfigureRefreshes' = 0
           /\ \A i \in 1..Len(syncs') : syncs'[i].kind # "configure"
           /\ cfgPc = "failed" => (cfgSent' = cfgSent /\ cfgAcked' = cfgAcked /\ confDone' = confDone) ]_vars

\* the configurationDone request has failed after both resources were synced, and
\* a `stopped` event has arrived since
C35_Witness ==
    /\ cfgPc = "failed"
    /\ ~disposed
    /\ confDone = "sent"
    /\ cfgAcked = StoreUriSet
    /\ Len(storeUris) = 2
    /\ threads # <<>>
    /\ State = "Initializing"


\* ------------------------------------------------------------------ C34
\* what a disposed session shows: Inactive, no thread, no current thread, no
\* stored breakpoint set, no request in flight
DisposedAndCleared ==
    /\ State = "Inactive"
    /\ threads = <<>>
    /\ currentThread = NoThread
    /\ \A u \in Uris : ~sessionBps[u].has /\ GetBreakpoints(u) = <<>>
    /\ syncs = <<>>
    /\ \A i \in 1..Len(pendingThreads) : ~pendingThreads[i].sent

\* C34: from dispose on the session is Inactive with an empty thread map, no
\* current thread and an empty breakpoint map, and no later step (a timer that
\* runs out, a change of the store, an event or a response) changes any of it.
C34_DisposedStaysCleared ==
    [][ disposed' => /\ DisposedAndCleared'
                     /\ disposed => (/\ threads' = threads
                                      /\ currentThread' = currentThread
                                      /\ sessionBps' = sessionBps
                                      /\ bpFired' = bpFired
                                      /\ threadsSent' = threadsSent
                                      /\ setBpSent' = setBpSent) ]_vars

\* a session that held a stopped thread and a stored set was disposed with the
\* debounce timer armed; since then the timer has run out and the store has
\* changed, which sent nothing
C34_Witness ==
    /\ disposed
    /\ DisposedAndCleared
    /\ initialized
    /\ bpFired["a.ts"] = 2
    /\ setBpSent["a.ts"] = 1
    /\ storeChanges = 1
    /\ threadsSent = [o \in Counted |-> IF o = "debounce" THEN 0 ELSE 1]
    /\ threadsRejected["debounce"] = 1
    /\ timer = 0


\* ------------------------------------------------------------------ C33
\* C33: between the operations of the manager, currentSession is undefined or a
\* session of _sessions, and no session that was created and has been destroyed
\* is the current one.
C33_CurrentIsRegistered ==
    /\ currentSession # NoSession => InSessions(Manager, currentSession)
    /\ \A id \in 1..created : ~InSessions(Manager, id) => currentSession # id

\* a session that was not the current one has been destroyed: its disposal made it
\* the current one, its removal moved the pointer to a session that is registered
C33_Witness ==
    /\ lastOp.kind = "destroy"
    /\ lastOp.current # NoSession
    /\ lastOp.current # lastOp.id
    /\ lastOp.events = 2
    /\ ~InSessions(Manager, lastOp.id)
    /\ currentSession # NoSession
    /\ InSessions(Manager, currentSession)


\* ------------------------------------------------------------------ C36
\* a breakpoint with the resource it was declared for
OfResource(uri, bp) == [uri |-> uri, breakpoint |-> bp]

\* undefined, where a breakpoint may be returned
NoBreakpoint == OfResource("none", NewDebugBreakpoint([id |-> 0, line |-> 0, enabled |-> FALSE]))

\* DebugSession.getBreakpoints() without a resource: the lists of _breakpoints one
\* after the other, in the order of its keys, which configure inserts in the order
\* of the store
RECURSIVE SessionBreakpointsFrom(_)
SessionBreakpointsFrom(i) ==
    IF i > Len(storeUris) THEN <<>>
    ELSE LET list == GetBreakpoints(storeUris[i])
         IN [j \in 1..Len(list) |-> OfResource(storeUris[i], list[j])]
            \o SessionBreakpointsFrom(i + 1)

\* this.breakpoints.findMarkers({uri}).map(({data}) => new DebugBreakpoint(data, ...))
StoreBreakpoints(uri) ==
    [j \in 1..Len(markers[uri]) |-> OfResource(uri, NewDebugBreakpoint(markers[uri][j]))]

\* the first breakpoint of a list that is on the line, or undefined
FirstOnLine(list, line) ==
    LET IsOnLine(b) == Line(b.breakpoint) = line
        found == SelectSeq(list, IsOnLine)
    IN IF found = <<>> THEN NoBreakpoint ELSE found[1]

\* session.state > DebugState.Initializing, for the session that is the current one
PastInitializing == State \in {"Running", "Stopped"}

\* DebugSessionManager.getBreakpoints(uri)
ManagerGetBreakpoints(uri) ==
    IF PastInitializing THEN SessionBreakpointsFrom(1) ELSE StoreBreakpoints(uri)

\* DebugSessionManager.getBreakpoint(uri, line)
ManagerGetBreakpoint(uri, line) ==
    IF PastInitializing THEN FirstOnLine(SessionBreakpointsFrom(1), line)
    ELSE FirstOnLine(StoreBreakpoints(uri), line)

\* C36: while the current session is past Initializing, getBreakpoints(uri) of the
\* manager returns breakpoints of uri only, and getBreakpoint(uri, line) returns
\* undefined or a breakpoint of uri that is on the line.
C36_OnlyOfResource ==
    PastInitializing
    => \A uri \in Uris :
          /\ \A i \in 1..Len(ManagerGetBreakpoints(uri)) : ManagerGetBreakpoints(uri)[i].uri = uri
          /\ \A line \in StoreLines :
                \/ ManagerGetBreakpoint(uri, line) = NoBreakpoint
                \/ /\ ManagerGetBreakpoint(uri, line).uri = uri
                   /\ Line(ManagerGetBreakpoint(uri, line).breakpoint) = line

====
